---------------------------- MODULE Spec2Model ----------------------------
(***************************************************************************)
(* libserdec: the YAML decoder cursor (src/serdec/yaml-deser.c) and the    *)
(* YAML encoder session (src/serdec/yaml-ser.c), as a state machine.       *)
(*                                                                         *)
(* An event is a record [type, value]; value is the scalar text as the     *)
(* parser delivers it, a sequence of characters that may hold the          *)
(* character NUL (event.data.scalar.length counts it).  The                *)
(* cursor's two event slots hold indices into src, the sequence of events  *)
(* the parser has produced so far; index 0 is a zeroed slot, whose type    *)
(* is YAML_NO_EVENT.                                                       *)
(***************************************************************************)
EXTENDS Integers, Sequences, FiniteSets, TLC

VARIABLES deser, stack, last, ser, app

vars == <<deser, stack, last, ser, app>>

(* ----------------------------- bounds ---------------------------------- *)
\* nodes (root, keys, list elements) one document may hold
MaxEvents == 3
\* decode calls made on one cursor, by the application and its visitors
MaxCalls == 3
\* visitor invocations made on one cursor
MaxVisits == 2
MaxEmits == 3

(* ------------------------ error codes ---------------------------------- *)
SERDEC_YAML_NO_ERROR == 0
SERDEC_YAML_UNKNOWN_ERROR == 1
SERDEC_YAML_SYSTEM_ERROR == 2
SERDEC_YAML_WRONG_TYPE == 3
SERDEC_YAML_MAX_ERROR == 4
SERDEC_YAML_UNEXPECTED_EVENT == 5
SERDEC_YAML_INVALID_BOOLEAN_TOKEN == 6
SERDEC_YAML_CALLBACK_SIGNALED_ERROR == 7

(* ------------------------ scalar texts --------------------------------- *)
TxtTrue == <<"t", "r", "u", "e">>
TxtFalse == <<"f", "a", "l", "s", "e">>
Txt42 == <<"4", "2">>
TxtNeg7 == <<"-", "7">>
Txt42abc == <<"4", "2", "a", "b", "c">>
TxtEmpty == << >>
TxtTrueCap == <<"T", "r", "u", "e">>
Txt0 == <<"0">>
Txt1 == <<"1">>
TxtSp42 == <<" ", "4", "2">>
Txt42Sp == <<"4", "2", " ">>
TxtPlus5 == <<"+", "5">>
TxtMinus == <<"-">>
TxtAbc == <<"a", "b", "c">>
Txt007 == <<"0", "0", "7">>
TxtIntMax == <<"2", "1", "4", "7", "4", "8", "3", "6", "4", "7">>
TxtIntMaxP1 == <<"2", "1", "4", "7", "4", "8", "3", "6", "4", "8">>
TxtIntMin == <<"-", "2", "1", "4", "7", "4", "8", "3", "6", "4", "8">>
TxtIntMinM1 == <<"-", "2", "1", "4", "7", "4", "8", "3", "6", "4", "9">>
Txt2p32 == <<"4", "2", "9", "4", "9", "6", "7", "2", "9", "6">>
Txt2p63 == <<"9", "2", "2", "3", "3", "7", "2", "0", "3", "6", "8", "5", "4",
             "7", "7", "5", "8", "0", "8">>
\* the texts of the double-quoted scalars "true\0x" and "42\0abc"
TxtTrueNulX == <<"t", "r", "u", "e", "NUL", "x">>
Txt42NulAbc == <<"4", "2", "NUL", "a", "b", "c">>

\* the scalar texts the scalar decoders are tried on
ScalarTexts ==
    {TxtTrue, TxtFalse, TxtTrueCap, Txt0, Txt1, TxtEmpty, Txt42, TxtNeg7,
     Txt42abc, TxtSp42, Txt42Sp, TxtPlus5, TxtMinus, TxtAbc, Txt007,
     TxtIntMax, TxtIntMaxP1, TxtIntMin, TxtIntMinM1, Txt2p32, Txt2p63,
     TxtTrueNulX, Txt42NulAbc}

\* the scalar texts the event source of the cursor model produces
Texts == {TxtTrue, TxtNeg7}

\* the key texts of the encoder model
Keys == {<<"a">>, <<"b">>}

NoEvent == [type |-> "NO_EVENT", value |-> << >>]

Ev(t) == [type |-> t, value |-> << >>]

Scalar(txt) == [type |-> "SCALAR", value |-> txt]


(* ------------------- the event source (libyaml parser) ----------------- *)
(* The parser is the external collaborator.  It produces a well-formed     *)
(* event stream, one event per call, chosen here at each call; any call    *)
(* before the end of the stream may instead fail (return 0).  After the    *)
(* stream end or an error, yaml_parser_parse returns 1 with an empty       *)
(* event (type YAML_NO_EVENT).  In mode "replay" the parser produces the   *)
(* events of p.input, the document an encoder session wrote.               *)

PTop(p) == IF Len(p.stack) = 0 THEN "root" ELSE p.stack[Len(p.stack)]

\* a node (scalar or whole container) is complete: step the enclosing context
NodeDone(p) ==
    IF Len(p.stack) = 0 THEN [p EXCEPT !.st = "docend"]
    ELSE IF PTop(p) = "mapkey" THEN [p EXCEPT !.stack[Len(p.stack)] = "mapval"]
    ELSE IF PTop(p) = "mapval" THEN [p EXCEPT !.stack[Len(p.stack)] = "mapkey"]
    ELSE p

PPop(p) == [p EXCEPT !.stack = SubSeq(p.stack, 1, Len(p.stack) - 1)]

PPush(p, c) == [p EXCEPT !.stack = Append(p.stack, c)]

\* p.n counts the nodes of the document that are the root, a key or a list
\* element; the value of a key is not counted, since it has to follow
Count(p) == IF PTop(p) = "mapval" THEN p ELSE [p EXCEPT !.n = p.n + 1]

\* the document may get one more node here
Room(p) == p.n < MaxEvents \/ PTop(p) = "mapval"

\* the successful productions of a parser in mode "any"
ParserProductions(p) ==
    CASE p.st = "start" ->
           {[ev |-> Ev("STREAM_START"), p |-> [p EXCEPT !.st = "stream"]]}
      [] p.st = "stream" ->
           {[ev |-> Ev("DOCUMENT_START"), p |-> [p EXCEPT !.st = "node"]],
            [ev |-> Ev("STREAM_END"), p |-> [p EXCEPT !.st = "end"]]}
      [] p.st = "node" ->
           (IF Room(p)
            THEN {[ev |-> Scalar(t), p |-> NodeDone(Count(p))] : t \in Texts}
            ELSE {})
           \cup
           (IF Room(p)
            THEN {[ev |-> Ev("MAPPING_START"), p |-> PPush(Count(p), "mapkey")],
                  [ev |-> Ev("SEQUENCE_START"), p |-> PPush(Count(p), "seq")]}
            ELSE {})
           \cup
           (IF PTop(p) = "mapkey"
            THEN {[ev |-> Ev("MAPPING_END"), p |-> NodeDone(PPop(p))]}
            ELSE {})
           \cup
           (IF PTop(p) = "seq"
            THEN {[ev |-> Ev("SEQUENCE_END"), p |-> NodeDone(PPop(p))]}
            ELSE {})
      [] p.st = "docend" ->
           {[ev |-> Ev("DOCUMENT_END"), p |-> [p EXCEPT !.st = "afterdoc"]]}
      [] p.st = "afterdoc" ->
           {[ev |-> Ev("STREAM_END"), p |-> [p EXCEPT !.st = "end"]]}
      [] OTHER -> {}

\* one call of yaml_parser_parse: the set of its possible outcomes
ParserParse(p) ==
    IF p.st \in {"end", "error"}
    THEN {[ok |-> TRUE, ev |-> NoEvent, p |-> p]}
    ELSE IF p.mode = "replay"
    THEN IF p.n < Len(p.input)
         THEN {[ok |-> TRUE, ev |-> p.input[p.n + 1],
                p |-> [p EXCEPT !.n = p.n + 1,
                         !.st = IF p.input[p.n + 1].type = "STREAM_END"
                                THEN "end" ELSE p.st]]}
         ELSE {[ok |-> FALSE, ev |-> NoEvent, p |-> [p EXCEPT !.st = "error"]]}
    ELSE {[ok |-> TRUE, ev |-> o.ev, p |-> o.p] : o \in ParserProductions(p)}
         \cup {[ok |-> FALSE, ev |-> NoEvent, p |-> [p EXCEPT !.st = "error"]]}

NewParser(mode, input) ==
    [mode |-> mode, input |-> input, st |-> "start", stack |-> << >>, n |-> 0]

(* ------------------------ the decoder cursor --------------------------- *)
(* d.event and d.event_buffer are indices into d.src (0: the slot is       *)
(* zeroed).  d.freed[i] counts the yaml_event_delete calls on event i.     *)
(* d.nparse counts the yaml_parser_parse calls of the operation under way. *)

EventType(d, i) == IF i = 0 THEN "NO_EVENT" ELSE d.src[i].type

EventValue(d, i) == IF i = 0 THEN << >> ELSE d.src[i].value

\* yaml_event_delete(&slot) for a slot of the cursor
yaml_event_delete(d, slot) ==
    IF d[slot] = 0 THEN d
    ELSE [d EXCEPT !.freed[d[slot]] = @ + 1, ![slot] = 0]

\* yaml_event_delete(&key_event), key_event a local of deserialize_map
DeleteLocal(d, i) ==
    IF i = 0 THEN d ELSE [d EXCEPT !.freed[i] = @ + 1]

\* yaml_parser_parse(&deser->parser, &deser-><slot>): the slot is overwritten
yaml_parser_parse(d, slot) ==
    { [ok |-> o.ok,
       d  |-> IF o.ev.type = "NO_EVENT"
              THEN [d EXCEPT !.parser = o.p, ![slot] = 0,
                             !.nparse = d.nparse + 1]
              ELSE [d EXCEPT !.parser = o.p,
                             !.src = Append(d.src, o.ev),
                             !.freed = Append(d.freed, 0),
                             ![slot] = Len(d.src) + 1,
                             !.nparse = d.nparse + 1]]
      : o \in ParserParse(d.parser) }

yaml_peek_event(d) ==
    LET d1 == IF EventType(d, d.event_buffer) # "NO_EVENT"
              THEN yaml_event_delete(d, "event_buffer") ELSE d
    IN { IF r.ok THEN [ret |-> 0, d |-> r.d]
         ELSE [ret |-> SERDEC_YAML_UNKNOWN_ERROR,
               d |-> [r.d EXCEPT !.error = SERDEC_YAML_UNKNOWN_ERROR]]
         : r \in yaml_parser_parse(d1, "event_buffer") }

\* yaml_next_event without its yaml_event_delete of the superseded event
yaml_next_event_no_delete(d) ==
    IF EventType(d, d.event_buffer) = "NO_EVENT"
    THEN { IF r.ok THEN [ret |-> 0, d |-> r.d]
           ELSE [ret |-> SERDEC_YAML_UNKNOWN_ERROR,
                 d |-> [r.d EXCEPT !.error = SERDEC_YAML_UNKNOWN_ERROR]]
           : r \in yaml_parser_parse(d, "event") }
    ELSE { [ret |-> 0,
            d |-> [d EXCEPT !.event = d.event_buffer, !.event_buffer = 0]] }

\* yaml_next_event without its memset of the lookahead slot after the memcpy
yaml_next_event_keeps_buffer(d) ==
    LET d1 == yaml_event_delete(d, "event")
    IN IF EventType(d1, d1.event_buffer) = "NO_EVENT"
       THEN { IF r.ok THEN [ret |-> 0, d |-> r.d]
              ELSE [ret |-> SERDEC_YAML_UNKNOWN_ERROR,
                    d |-> [r.d EXCEPT !.error = SERDEC_YAML_UNKNOWN_ERROR]]
              : r \in yaml_parser_parse(d1, "event") }
       ELSE { [ret |-> 0, d |-> [d1 EXCEPT !.event = d1.event_buffer]] }

yaml_next_event(d) ==
    LET d1 == yaml_event_delete(d, "event")
    IN IF EventType(d1, d1.event_buffer) = "NO_EVENT"
       THEN { IF r.ok THEN [ret |-> 0, d |-> r.d]
              ELSE [ret |-> SERDEC_YAML_UNKNOWN_ERROR,
                    d |-> [r.d EXCEPT !.error = SERDEC_YAML_UNKNOWN_ERROR]]
              : r \in yaml_parser_parse(d1, "event") }
       ELSE { [ret |-> 0,
               d |-> [d1 EXCEPT !.event = d1.event_buffer,
                                !.event_buffer = 0]] }

\* prepare_deserializer reporting success whatever its fetches returned
RECURSIVE prepare_deserializer_failure_ignored(_)
prepare_deserializer_failure_ignored(d) ==
    UNION { IF r.ret = 0 /\ EventType(r.d, r.d.event_buffer)
                                \in {"STREAM_START", "DOCUMENT_START"}
            THEN UNION { IF r2.ret # 0 THEN {[ret |-> 0, d |-> r2.d]}
                         ELSE prepare_deserializer_failure_ignored(r2.d)
                         : r2 \in yaml_next_event(r.d) }
            ELSE {[ret |-> 0, d |-> r.d]}
            : r \in yaml_peek_event(d) }

\* prepare_deserializer promoting the first event after the preamble too
RECURSIVE prepare_deserializer_promotes_all(_)
prepare_deserializer_promotes_all(d) ==
    UNION { IF r.ret # 0 THEN {r}
            ELSE UNION { IF r2.ret # 0 THEN {r2}
                         ELSE IF EventType(r2.d, r2.d.event)
                                   \in {"STREAM_START", "DOCUMENT_START"}
                         THEN prepare_deserializer_promotes_all(r2.d)
                         ELSE {[ret |-> 0, d |-> r2.d]}
                         : r2 \in yaml_next_event(r.d) }
            : r \in yaml_peek_event(d) }

RECURSIVE prepare_deserializer(_)
prepare_deserializer(d) ==
    UNION { IF r.ret # 0 THEN {r}
            ELSE IF EventType(r.d, r.d.event_buffer)
                      \in {"STREAM_START", "DOCUMENT_START"}
            THEN UNION { IF r2.ret # 0 THEN {r2}
                         ELSE prepare_deserializer(r2.d)
                         : r2 \in yaml_next_event(r.d) }
            ELSE {[ret |-> 0, d |-> r.d]}
            : r \in yaml_peek_event(d) }

\* memset(deser, 0, ...) and yaml_parser_initialize over the given input
NewCursor(parser, bits) ==
    [state |-> "none", parser |-> parser, src |-> << >>, freed |-> << >>,
     event |-> 0, event_buffer |-> 0, error |-> SERDEC_YAML_NO_ERROR,
     nparse |-> 0, long_bits |-> bits]

\* serdec_yaml_deserializer_new_string / _new_file: the cursors they can
\* return; state "null" is the NULL return
deserializer_new(d) ==
    { IF r.ret # 0 THEN [r.d EXCEPT !.state = "null"]
      ELSE [r.d EXCEPT !.state = "open"]
      : r \in prepare_deserializer([d EXCEPT !.nparse = 0]) }

(* ---------------------- C library conversions -------------------------- *)
(* strtol(text, &end, 10) and snprintf("%d").  TLC integers are 32 bits    *)
(* wide, so the magnitude a digit string denotes is kept modulo 2^32 as    *)
(* two 16-bit limbs <<hi, lo>>, and the comparison with LONG_MAX is made   *)
(* on the digit strings.  d.long_bits is the width of long of the build    *)
(* (64 on LP64, 32 on ILP32 and LLP64); int is 32 bits wide.               *)

\* the character of code 0, which ends a C string
NUL == "NUL"

\* what the C library reads at the pointer to value: the characters before
\* the first NUL (the event stores a terminating NUL after value[length-1])
RECURSIVE CStr(_)
CStr(value) ==
    IF Len(value) = 0 \/ value[1] = NUL THEN << >>
    ELSE <<value[1]>> \o CStr(Tail(value))

\* strcmp(a, b) = 0
strcmp_equal(a, b) == CStr(a) = CStr(b)

INT_MAX == 2147483647
INT_MIN == (-2147483647) - 1
Limb == 2 ^ 16

Digits == <<"0", "1", "2", "3", "4", "5", "6", "7", "8", "9">>

IsDigit(c) == \E i \in 1..10 : Digits[i] = c

DigitVal(c) == (CHOOSE i \in 1..10 : Digits[i] = c) - 1

IsSpace(c) == c \in {" ", "\t", "\n"}

\* the first index at or after i whose character does not satisfy the class
RECURSIVE SkipSpace(_, _)
SkipSpace(text, i) ==
    IF i <= Len(text) /\ IsSpace(text[i]) THEN SkipSpace(text, i + 1) ELSE i

RECURSIVE SkipDigits(_, _)
SkipDigits(text, i) ==
    IF i <= Len(text) /\ IsDigit(text[i]) THEN SkipDigits(text, i + 1) ELSE i

RECURSIVE StripZeros(_)
StripZeros(ds) ==
    IF Len(ds) > 1 /\ ds[1] = "0" THEN StripZeros(Tail(ds)) ELSE ds

\* ds > lim as digit strings without leading zeros
RECURSIVE DigitsGreater(_, _)
DigitsGreater(ds, lim) ==
    IF Len(ds) # Len(lim) THEN Len(ds) > Len(lim)
    ELSE IF Len(ds) = 0 THEN FALSE
    ELSE IF ds[1] # lim[1] THEN DigitVal(ds[1]) > DigitVal(lim[1])
    ELSE DigitsGreater(Tail(ds), Tail(lim))

\* the magnitude of ds modulo 2^32, as limbs
RECURSIVE Low32(_, _, _)
Low32(ds, hi, lo) ==
    IF Len(ds) = 0 THEN <<hi, lo>>
    ELSE LET l == lo * 10 + DigitVal(ds[1])
         IN Low32(Tail(ds), (hi * 10 + (l \div Limb)) % Limb, l % Limb)

\* two's complement negation modulo 2^32
NegLimbs(u) ==
    IF u[2] = 0 THEN <<(Limb - u[1]) % Limb, 0>>
    ELSE <<(Limb - 1) - u[1], Limb - u[2]>>

\* the int whose 32-bit pattern is u: the conversion long -> int
LimbsToInt(u) ==
    IF u[1] >= Limb \div 2 THEN (u[1] - Limb) * Limb + u[2]
    ELSE u[1] * Limb + u[2]

\* the digits of the magnitude of LONG_MAX (neg = FALSE) or LONG_MIN
LongLimit(bits, neg) ==
    IF bits = 64
    THEN <<"9","2","2","3","3","7","2","0","3","6","8","5","4","7","7","5",
           "8","0", IF neg THEN "8" ELSE "7">>
    ELSE <<"2","1","4","7","4","8","3","6","4", IF neg THEN "8" ELSE "7">>

\* strtol, then the assignment of its long result to an int:
\* end is the number of characters before *end_pointer
strtol(text, bits) ==
    LET s == SkipSpace(text, 1)
        signed == s <= Len(text) /\ text[s] \in {"-", "+"}
        neg == s <= Len(text) /\ text[s] = "-"
        ds == IF signed THEN s + 1 ELSE s
        de == SkipDigits(text, ds)
        sig == StripZeros(SubSeq(text, ds, de - 1))
        mag == Low32(sig, 0, 0)
    IN IF de = ds THEN [value |-> 0, end |-> 0, erange |-> FALSE]
       ELSE IF DigitsGreater(sig, LongLimit(bits, neg))
       THEN [value |-> IF bits = 64
                       THEN (IF neg THEN 0 ELSE -1)
                       ELSE (IF neg THEN INT_MIN ELSE INT_MAX),
             end |-> de - 1, erange |-> TRUE]
       ELSE [value |-> LimbsToInt(IF neg THEN NegLimbs(mag) ELSE mag),
             end |-> de - 1, erange |-> FALSE]

\* snprintf(buffer, 64, "%d", value): the text written
RECURSIVE FormatNat(_)
FormatNat(n) ==
    IF n < 10 THEN <<Digits[n + 1]>>
    ELSE Append(FormatNat(n \div 10), Digits[(n % 10) + 1])

\* the decimal digits of -n for n <= 0, computed without negating n
RECURSIVE FormatNeg(_)
FormatNeg(n) ==
    LET dg == (10 - (n % 10)) % 10
        rest == (n + dg) \div 10
    IN IF rest = 0 THEN <<Digits[dg + 1]>>
       ELSE Append(FormatNeg(rest), Digits[dg + 1])

FormatInt(v) == IF v >= 0 THEN FormatNat(v) ELSE <<"-">> \o FormatNeg(v)

(* ------------------------ scalar decoding ------------------------------ *)
(* A decode call yields a set of results [ret, d, wrote, vbool, vint,      *)
(* vstr]: wrote says whether *value was assigned, vstr is the index of the *)
(* event whose text *value points into.                                    *)

Result(ret, d) ==
    [ret |-> ret, d |-> d, wrote |-> FALSE, vbool |-> FALSE, vint |-> 0,
     vstr |-> 0]

\* deser->error = code; return deser->error;
Fail(d, code) == Result(code, [d EXCEPT !.error = code])

\* deserialize_bool assigning *value = value_bool before it rejects a
\* text that is neither "true" nor "false"
serdec_yaml_deserialize_bool_writes_first(d) ==
    { IF r.ret # 0 THEN Result(r.d.error, r.d)
      ELSE IF EventType(r.d, r.d.event) # "SCALAR"
      THEN Fail(r.d, SERDEC_YAML_UNEXPECTED_EVENT)
      ELSE IF strcmp_equal(EventValue(r.d, r.d.event), TxtTrue)
      THEN [Result(0, r.d) EXCEPT !.wrote = TRUE, !.vbool = TRUE]
      ELSE IF strcmp_equal(EventValue(r.d, r.d.event), TxtFalse)
      THEN [Result(0, r.d) EXCEPT !.wrote = TRUE, !.vbool = FALSE]
      ELSE [Fail(r.d, SERDEC_YAML_INVALID_BOOLEAN_TOKEN)
              EXCEPT !.wrote = TRUE]
      : r \in yaml_next_event(d) }

serdec_yaml_deserialize_bool(d) ==
    { IF r.ret # 0 THEN Result(r.d.error, r.d)
      ELSE IF EventType(r.d, r.d.event) # "SCALAR"
      THEN Fail(r.d, SERDEC_YAML_UNEXPECTED_EVENT)
      ELSE IF strcmp_equal(EventValue(r.d, r.d.event), TxtTrue)
      THEN [Result(0, r.d) EXCEPT !.wrote = TRUE, !.vbool = TRUE]
      ELSE IF strcmp_equal(EventValue(r.d, r.d.event), TxtFalse)
      THEN [Result(0, r.d) EXCEPT !.wrote = TRUE, !.vbool = FALSE]
      ELSE Fail(r.d, SERDEC_YAML_INVALID_BOOLEAN_TOKEN)
      : r \in yaml_next_event(d) }

serdec_yaml_deserialize_int(d) ==
    { IF r.ret # 0 THEN Result(r.d.error, r.d)
      ELSE IF EventType(r.d, r.d.event) # "SCALAR"
      THEN Fail(r.d, SERDEC_YAML_UNEXPECTED_EVENT)
      ELSE LET text == CStr(EventValue(r.d, r.d.event))
               c == strtol(text, r.d.long_bits)
           IN IF c.end < Len(text)
              THEN Fail(r.d, SERDEC_YAML_SYSTEM_ERROR)
              ELSE [Result(0, r.d) EXCEPT !.wrote = TRUE, !.vint = c.value]
      : r \in yaml_next_event(d) }

\* deserialize_string without the check of the event type
serdec_yaml_deserialize_string_unchecked(d) ==
    { IF r.ret # 0 THEN Result(r.d.error, r.d)
      ELSE [Result(0, r.d) EXCEPT !.wrote = TRUE, !.vstr = r.d.event]
      : r \in yaml_next_event(d) }

serdec_yaml_deserialize_string(d) ==
    { IF r.ret # 0 THEN Result(r.d.error, r.d)
      ELSE IF EventType(r.d, r.d.event) # "SCALAR"
      THEN Fail(r.d, SERDEC_YAML_UNEXPECTED_EVENT)
      ELSE [Result(0, r.d) EXCEPT !.wrote = TRUE, !.vstr = r.d.event]
      : r \in yaml_next_event(d) }

(* ------------------------ container decoding --------------------------- *)
(* A call of deserialize_map / deserialize_list that is inside its visitor *)
(* is a frame on stack: the locals of the call (index, key_event) and a    *)
(* record of its visitor invocations.  A container operation yields        *)
(* outcomes [kind, ret, d, f]: kind "return" (the call returns ret) or     *)
(* "invoke" (the call invokes its visitor and waits in frame f).           *)

NewFrame(op, d) ==
    [op |-> op, index |-> 0, key_event |-> 0, start |-> d.event,
     visits |-> << >>, calls |-> 0, cur_match |-> TRUE, cur_fail |-> FALSE,
     good |-> TRUE]

NoFrame == [op |-> "", index |-> 0, key_event |-> 0, start |-> 0,
            visits |-> << >>, calls |-> 0, cur_match |-> TRUE,
            cur_fail |-> FALSE, good |-> TRUE]

Return(ret, d, f) == [kind |-> "return", ret |-> ret, d |-> d, f |-> f]

Invoke(d, f) == [kind |-> "invoke", ret |-> 0, d |-> d, f |-> f]

\* the visitor is invoked with arg (the list index) or the key event's text
Visit(f, d, arg, key) ==
    [f EXCEPT !.visits = Append(f.visits,
                  [arg |-> arg, key |-> key, keytext |-> EventValue(d, key),
                   from |-> Len(d.src), to |-> 0]),
              !.calls = 0, !.cur_match = TRUE, !.cur_fail = FALSE]

\* the map loop without the memset that detaches the key from the buffer
MapLoop_key_left_buffered(d, f) ==
    { IF r.ret # 0
      THEN Return(0, yaml_event_delete(r.d, "event_buffer"), f)
      ELSE IF EventType(r.d, r.d.event_buffer) = "MAPPING_END"
      THEN Return(0, yaml_event_delete(r.d, "event_buffer"), f)
      ELSE Invoke(r.d, Visit([f EXCEPT !.key_event = r.d.event_buffer],
                             r.d, 0, r.d.event_buffer))
      : r \in yaml_peek_event(d) }

\* the map loop ending on the end event of a list
MapLoop_wrong_end(d, f) ==
    { IF r.ret # 0
      THEN Return(0, yaml_event_delete(r.d, "event_buffer"), f)
      ELSE IF EventType(r.d, r.d.event_buffer) = "SEQUENCE_END"
      THEN Return(0, yaml_event_delete(r.d, "event_buffer"), f)
      ELSE LET key == r.d.event_buffer
               d2 == [r.d EXCEPT !.event_buffer = 0]
           IN Invoke(d2, Visit([f EXCEPT !.key_event = key], d2, 0, key))
      : r \in yaml_peek_event(d) }

\* the map loop making the end event the current event when it returns
MapLoop_end_promoted(d, f) ==
    { IF r.ret # 0
      THEN Return(0, yaml_event_delete(r.d, "event_buffer"), f)
      ELSE IF EventType(r.d, r.d.event_buffer) = "MAPPING_END"
      THEN Return(0, [yaml_event_delete(r.d, "event")
                        EXCEPT !.event = r.d.event_buffer,
                               !.event_buffer = 0], f)
      ELSE LET key == r.d.event_buffer
               d2 == [r.d EXCEPT !.event_buffer = 0]
           IN Invoke(d2, Visit([f EXCEPT !.key_event = key], d2, 0, key))
      : r \in yaml_peek_event(d) }

\* the loop of deserialize_map from its condition on (yaml-deser.c:206)
\* the map loop releasing the key event before it invokes the visitor
MapLoop_key_released_early(d, f) ==
    { IF r.ret # 0
      THEN Return(0, yaml_event_delete(r.d, "event_buffer"), f)
      ELSE IF EventType(r.d, r.d.event_buffer) = "MAPPING_END"
      THEN Return(0, yaml_event_delete(r.d, "event_buffer"), f)
      ELSE LET key == r.d.event_buffer
               d2 == DeleteLocal([r.d EXCEPT !.event_buffer = 0], key)
           IN Invoke(d2, Visit([f EXCEPT !.key_event = key], d2, 0, key))
      : r \in yaml_peek_event(d) }

MapLoop(d, f) ==
    { IF r.ret # 0
      THEN Return(0, yaml_event_delete(r.d, "event_buffer"), f)
      ELSE IF EventType(r.d, r.d.event_buffer) = "MAPPING_END"
      THEN Return(0, yaml_event_delete(r.d, "event_buffer"), f)
      ELSE LET key == r.d.event_buffer
               d2 == [r.d EXCEPT !.event_buffer = 0]
           IN Invoke(d2, Visit([f EXCEPT !.key_event = key], d2, 0, key))
      : r \in yaml_peek_event(d) }

\* the list loop passing index without incrementing it
ListLoop_no_increment(d, f) ==
    { IF r.ret # 0
      THEN Return(r.ret, yaml_event_delete(r.d, "event_buffer"), f)
      ELSE IF EventType(r.d, r.d.event_buffer) = "SEQUENCE_END"
      THEN Return(0, yaml_event_delete(r.d, "event_buffer"), f)
      ELSE Invoke(r.d, Visit(f, r.d, f.index, 0))
      : r \in yaml_peek_event(d) }

\* the list loop returning at the end event without consuming it
ListLoop_end_left_buffered(d, f) ==
    { IF r.ret # 0
      THEN Return(r.ret, yaml_event_delete(r.d, "event_buffer"), f)
      ELSE IF EventType(r.d, r.d.event_buffer) = "SEQUENCE_END"
      THEN Return(0, r.d, f)
      ELSE Invoke(r.d, Visit([f EXCEPT !.index = f.index + 1], r.d,
                             f.index, 0))
      : r \in yaml_peek_event(d) }

\* the loop of deserialize_list from its condition on (yaml-deser.c:242)
ListLoop(d, f) ==
    { IF r.ret # 0
      THEN Return(r.ret, yaml_event_delete(r.d, "event_buffer"), f)
      ELSE IF EventType(r.d, r.d.event_buffer) = "SEQUENCE_END"
      THEN Return(0, yaml_event_delete(r.d, "event_buffer"), f)
      ELSE Invoke(r.d, Visit([f EXCEPT !.index = f.index + 1], r.d,
                             f.index, 0))
      : r \in yaml_peek_event(d) }

\* deserialize_map without the check of the start event
serdec_yaml_deserialize_map_unchecked(d) ==
    UNION { IF r.ret # 0 THEN {Return(r.d.error, r.d, NoFrame)}
            ELSE MapLoop(r.d, NewFrame("map", r.d))
            : r \in yaml_next_event(d) }

\* deserialize_map up to its first visitor invocation or its return
serdec_yaml_deserialize_map(d) ==
    UNION { IF r.ret # 0 THEN {Return(r.d.error, r.d, NoFrame)}
            ELSE IF EventType(r.d, r.d.event) # "MAPPING_START"
            THEN {Return(SERDEC_YAML_UNEXPECTED_EVENT,
                         [r.d EXCEPT !.error = SERDEC_YAML_UNEXPECTED_EVENT],
                         NoFrame)}
            ELSE MapLoop(r.d, NewFrame("map", r.d))
            : r \in yaml_next_event(d) }

serdec_yaml_deserialize_list(d) ==
    UNION { IF r.ret # 0 THEN {Return(r.d.error, r.d, NoFrame)}
            ELSE IF EventType(r.d, r.d.event) # "SEQUENCE_START"
            THEN {Return(SERDEC_YAML_UNEXPECTED_EVENT,
                         [r.d EXCEPT !.error = SERDEC_YAML_UNEXPECTED_EVENT],
                         NoFrame)}
            ELSE ListLoop(r.d, NewFrame("list", r.d))
            : r \in yaml_next_event(d) }

\* deserialize_map going on with its loop whatever the visitor returned
MapAfterVisit_result_ignored(d, f, res) ==
    MapLoop(DeleteLocal(d, f.key_event), [f EXCEPT !.key_event = 0])

\* deserialize_map resynchronising after a visitor that fetched nothing:
\* one more event is fetched and dropped before the loop goes on
MapAfterVisit_skips_unconsumed(d, f, res) ==
    LET d1 == DeleteLocal(d, f.key_event)
        f1 == [f EXCEPT !.key_event = 0]
        v == f.visits[Len(f.visits)]
    IN IF res # 0
       THEN {Return(SERDEC_YAML_CALLBACK_SIGNALED_ERROR,
                    [d1 EXCEPT !.error = SERDEC_YAML_CALLBACK_SIGNALED_ERROR],
                    f1)}
       ELSE IF v.to = v.from
       THEN UNION { MapLoop(r.d, f1) : r \in yaml_peek_event(d1) }
       ELSE MapLoop(d1, f1)

\* deserialize_map from the return of its visitor with result res
MapAfterVisit(d, f, res) ==
    LET d1 == DeleteLocal(d, f.key_event)
        f1 == [f EXCEPT !.key_event = 0]
    IN IF res # 0
       THEN {Return(SERDEC_YAML_CALLBACK_SIGNALED_ERROR,
                    [d1 EXCEPT !.error = SERDEC_YAML_CALLBACK_SIGNALED_ERROR],
                    f1)}
       ELSE MapLoop(d1, f1)

\* deserialize_list from the return of its visitor with result res
ListAfterVisit(d, f, res) ==
    IF res # 0
    THEN {Return(SERDEC_YAML_CALLBACK_SIGNALED_ERROR,
                 [d EXCEPT !.error = SERDEC_YAML_CALLBACK_SIGNALED_ERROR], f)}
    ELSE ListLoop(d, f)

(* ------------------------ the application ------------------------------ *)
(* app.mode "free": the application and its visitors make any decode call  *)
(* and return any result.  app.mode "schema": they decode the value whose  *)
(* encoder calls are app.script, as a generated per-type decode function   *)
(* does: each visitor makes the one decode call of the type of its entry   *)
(* and returns failure when that call failed.  app.out is the value        *)
(* decoded so far by the schema-driven application, flattened in the same  *)
(* way as app.script.  An application that keeps the pointer returned by   *)
(* deserialize_string (app.keeps) instead of copying the text at once      *)
(* holds in app.held the event that the pointer points into (0: none).     *)

Item(k, b, i, s) == [k |-> k, b |-> b, i |-> i, s |-> s]

Mark(k) == Item(k, FALSE, 0, << >>)

StartMark(op) == IF op = "map" THEN "map_start" ELSE "list_start"

EndMark(op) == IF op = "map" THEN "map_end" ELSE "list_end"

Top == stack[Len(stack)]

Pop(st) == SubSeq(st, 1, Len(st) - 1)

\* the call the schema-driven application makes next
Expected ==
    IF Len(app.out) < Len(app.script) THEN app.script[Len(app.out) + 1].k
    ELSE "none"

Allowed(op) ==
    \/ app.mode = "free"
    \/ /\ app.mode = "schema"
       /\ Expected = (IF op \in {"map", "list"} THEN StartMark(op) ELSE op)
       /\ stack # << >> => Top.calls = 0

\* a decode call may be made: by the application, or by the running visitor
CanCall(op) ==
    /\ deser.state = "open"
    /\ app.calls < MaxCalls
    /\ Allowed(op)

\* the caller's context once a decode call has returned ret to it
AfterCall(st, ret, match) ==
    IF st = << >> THEN st
    ELSE [st EXCEPT ![Len(st)].calls = @ + 1,
                    ![Len(st)].cur_match = @ /\ match,
                    ![Len(st)].cur_fail = @ \/ ret # 0]

Log(act, op, returned, ret, cb, res, f) ==
    [act |-> act, op |-> op, returned |-> returned, ret |-> ret, cb |-> cb,
     ev0 |-> deser.event, buf0 |-> deser.event_buffer,
     len0 |-> Len(deser.src), err0 |-> deser.error, depth0 |-> Len(stack),
     pst0 |-> deser.parser.st,
     wrote |-> res.wrote, vbool |-> res.vbool, vint |-> res.vint,
     vstr |-> res.vstr, start |-> f.start, visits |-> f.visits,
     good |-> f.good, nparse |-> res.d.nparse, handed |-> << >>,
     items |-> << >>, text |-> << >>, null |-> FALSE]

NoLog == [act |-> "none", op |-> "", returned |-> FALSE, ret |-> 0,
          cb |-> -1, ev0 |-> 0, buf0 |-> 0, len0 |-> 0, err0 |-> 0,
          depth0 |-> 0, pst0 |-> "start", wrote |-> FALSE, vbool |-> FALSE, vint |-> 0,
          vstr |-> 0, start |-> 0, visits |-> << >>, good |-> TRUE,
          nparse |-> 0, handed |-> << >>, items |-> << >>, text |-> << >>,
          null |-> FALSE]

\* the schema-driven application keeps what it decodes, in app.out
Keeps == app.mode = "schema"

\* a scalar decode call op with result r returns to its caller
ScalarReturns(op, r, item) ==
    /\ deser' = r.d
    /\ stack' = AfterCall(stack, r.ret,
                          EventType(r.d, r.d.event) = "SCALAR")
    /\ app' = [app EXCEPT
                 !.calls = @ + 1,
                 !.held = IF app.keeps /\ op = "string" /\ r.ret = 0
                          THEN r.vstr ELSE @,
                 !.out = IF Keeps /\ r.ret = 0 THEN Append(@, item) ELSE @,
                 !.ok = @ /\ (Keeps => r.ret = 0)]
    /\ last' = Log("call", op, TRUE, r.ret, -1, r, NoFrame)
    /\ UNCHANGED ser

Call_bool ==
    /\ CanCall("bool")
    /\ \E r \in serdec_yaml_deserialize_bool([deser EXCEPT !.nparse = 0]) :
          ScalarReturns("bool", r, Item("bool", r.vbool, 0, << >>))

Call_int ==
    /\ CanCall("int")
    /\ \E r \in serdec_yaml_deserialize_int([deser EXCEPT !.nparse = 0]) :
          ScalarReturns("int", r, Item("int", FALSE, r.vint, << >>))

\* the caller copies the text at once (strdup), as the test's visitor does
Call_string ==
    /\ CanCall("string")
    /\ \E r \in serdec_yaml_deserialize_string([deser EXCEPT !.nparse = 0]) :
          ScalarReturns("string", r,
                        Item("string", FALSE, 0, CStr(EventValue(r.d, r.vstr))))

\* the outcome o of container call op, entered in this step (entered) or
\* resumed from the return res of its visitor
ContainerStep(op, o, entered, cb, base) ==
    LET began == o.f.op # ""
        opened == IF Keeps /\ entered /\ began
                  THEN <<Mark(StartMark(op))>> ELSE << >>
    IN /\ deser' = o.d
       /\ last' = Log(IF entered THEN "call" ELSE "vreturn", op,
                      o.kind = "return", o.ret, cb, Result(o.ret, o.d), o.f)
       /\ UNCHANGED ser
       /\ IF o.kind = "return"
          THEN /\ stack' = AfterCall(base, o.ret, began /\ o.f.good)
               /\ app' = [app EXCEPT
                     !.calls = IF entered THEN @ + 1 ELSE @,
                     !.out = @ \o opened \o
                             (IF Keeps /\ o.ret = 0
                              THEN <<Mark(EndMark(op))>> ELSE << >>),
                     !.ok = @ /\ (Keeps => o.ret = 0)]
          ELSE /\ stack' = Append(base, o.f)
               /\ app' = [app EXCEPT
                     !.calls = IF entered THEN @ + 1 ELSE @,
                     !.visits = @ + 1,
                     !.out = @ \o opened \o
                             (IF Keeps /\ op = "map"
                              THEN <<Item("key", FALSE, 0,
                                     o.f.visits[Len(o.f.visits)].keytext)>>
                              ELSE << >>)]

\* the model follows at most MaxVisits visitor invocations
Followed(o) == o.kind = "invoke" => app.visits < MaxVisits

Call_map ==
    /\ CanCall("map")
    /\ \E o \in serdec_yaml_deserialize_map([deser EXCEPT !.nparse = 0]) :
          /\ Followed(o)
          /\ ContainerStep("map", o, TRUE, -1, stack)

Call_list ==
    /\ CanCall("list")
    /\ \E o \in serdec_yaml_deserialize_list([deser EXCEPT !.nparse = 0]) :
          /\ Followed(o)
          /\ ContainerStep("list", o, TRUE, -1, stack)

\* the results the running visitor may return
VisitorResults ==
    IF app.mode = "free" THEN {0, 1}
    ELSE IF Top.calls = 1 /\ ~Top.cur_fail THEN {0}
    ELSE IF Top.calls = 1 \/ ~(Expected \in {"map_start", "list_start",
                                             "bool", "int", "string"})
    THEN {1}
    ELSE {}

\* the frame once its visitor has returned res
Visited(f, res) ==
    [f EXCEPT !.visits[Len(f.visits)].to = Len(deser.src),
              !.good = @ /\ f.calls = 1 /\ f.cur_match /\ res = 0]

\* the visitor of the innermost container call returns res; the call goes
\* on to its next visitor invocation or to its return
VisitorReturn ==
    /\ stack # << >>
    /\ \E res \in VisitorResults :
         LET f == Visited(Top, res)
             d0 == [deser EXCEPT !.nparse = 0]
         IN \E o \in (IF f.op = "map" THEN MapAfterVisit(d0, f, res)
                      ELSE ListAfterVisit(d0, f, res)) :
               /\ Followed(o)
               /\ ContainerStep(f.op, o, FALSE, res, Pop(stack))

\* the null pointer, as a description
NULL == "NULL"

\* SERDEC_YAML_ERROR_STRINGS: the entries the designated initializers give;
\* every other slot of the table is a null pointer
SERDEC_YAML_ERROR_STRINGS(e) ==
    CASE e = SERDEC_YAML_UNKNOWN_ERROR -> "unknown error in libyaml"
      [] e = SERDEC_YAML_WRONG_TYPE ->
             "serializer is the wrong type for the operation"
      [] e = SERDEC_YAML_UNEXPECTED_EVENT ->
             "expected a different event in the stream"
      [] e = SERDEC_YAML_INVALID_BOOLEAN_TOKEN ->
             "expected either 'true' or 'false'"
      [] e = SERDEC_YAML_CALLBACK_SIGNALED_ERROR ->
             "callback returned non-zero"
      [] OTHER -> NULL

\* serdec_yaml_deserializer_strerror: the descriptions the call can return.
\* strerror(errno) is always a text; parser.problem is the text libyaml
\* recorded with the failure, or null when the failure was an allocation.
serdec_yaml_deserializer_strerror(d) ==
    IF 0 > d.error \/ SERDEC_YAML_MAX_ERROR <= d.error THEN {NULL}
    ELSE CASE d.error = SERDEC_YAML_SYSTEM_ERROR -> {"strerror(errno)"}
           [] d.error = SERDEC_YAML_UNKNOWN_ERROR -> {"parser.problem", NULL}
           [] OTHER -> {SERDEC_YAML_ERROR_STRINGS(d.error)}

\* serdec_yaml_deserializer_free without its yaml_event_delete of the
\* lookahead slot
serdec_yaml_deserializer_free_current_only(d) ==
    [yaml_event_delete(d, "event") EXCEPT !.state = "freed"]

\* serdec_yaml_deserializer_free
serdec_yaml_deserializer_free(d) ==
    [yaml_event_delete(yaml_event_delete(d, "event"), "event_buffer")
       EXCEPT !.state = "freed"]

Free ==
    /\ deser.state = "open"
    /\ stack = << >>
    /\ deser' = serdec_yaml_deserializer_free(deser)
    /\ last' = [NoLog EXCEPT !.act = "free"]
    /\ UNCHANGED <<stack, ser, app>>

\* what the parser reads back from the events the emitter wrote
Document(emitted) ==
    [i \in 1..Len(emitted) |->
        [type |-> emitted[i].type, value |-> emitted[i].value]]

\* serdec_yaml_deserializer_new_string over the input of deser.parser, or
\* over the document the encoder session has just finished
New ==
    /\ deser.state = "none"
    /\ app.phase \in {"decode", "encoded"}
    /\ \E d \in deserializer_new(
                   IF app.phase = "encoded"
                   THEN [deser EXCEPT
                           !.parser = NewParser("replay", Document(ser.emitted))]
                   ELSE deser) :
          /\ deser' = d
          /\ last' = [NoLog EXCEPT !.act = "new", !.nparse = d.nparse]
    /\ app' = [app EXCEPT !.phase = "decode"]
    /\ UNCHANGED <<stack, ser>>

(* ------------------------ the encoder session -------------------------- *)
(* s.emitted is the sequence of events the emitter has accepted.  An       *)
(* encoder operation yields results [ret, s, ok]: ok says that the emitter *)
(* accepted every event of the call.                                       *)

\* enum SerializerType: the one kind of sink there is
SERIALIZER_STRING == 0

NoSession == [state |-> "none", error |-> SERDEC_YAML_NO_ERROR,
              emitted |-> << >>, type |-> SERIALIZER_STRING, data |-> << >>]

\* serdec_yaml_serializer_new_string: memset(ser, 0, ...), string sink with
\* the empty text
serdec_yaml_serializer_new_string ==
    [state |-> "open", error |-> SERDEC_YAML_NO_ERROR, emitted |-> << >>,
     type |-> SERIALIZER_STRING, data |-> << >>]

\* string_append_new_with_length keeping only the new bytes
string_append_new_with_length_replacing(string, buffer, length) ==
    SubSeq(buffer, 1, length)

\* string_append_new_with_length: a new text, the old one followed by the
\* first length bytes of buffer (the bytes of an event stand as the event)
string_append_new_with_length(string, buffer, length) ==
    string \o SubSeq(buffer, 1, length)

\* string_write, the write handler of the string sink
string_write(s, buffer) ==
    [s EXCEPT !.data = string_append_new_with_length(@, buffer, Len(buffer))]

\* serdec_yaml_serializer_borrow_string
serdec_yaml_serializer_borrow_string(s) ==
    IF SERIALIZER_STRING # s.type
    THEN [null |-> TRUE, text |-> << >>,
          s |-> [s EXCEPT !.error = SERDEC_YAML_WRONG_TYPE]]
    ELSE [null |-> FALSE, text |-> s.data, s |-> s]

\* the event a yaml_*_event_initialize call builds (tag "" is NULL)
Event(type, value, tag, style, implicit, quoted_implicit) ==
    [type |-> type, value |-> value, tag |-> tag, style |-> style,
     implicit |-> implicit, quoted_implicit |-> quoted_implicit]

YAML_MAP_TAG == "tag:yaml.org,2002:map"
YAML_STR_TAG == "tag:yaml.org,2002:str"
YAML_INT_TAG == "tag:yaml.org,2002:int"

\* the bytes of the events accepted that the emitter still holds
Pending(s) == SubSeq(s.emitted, Len(s.data) + 1, Len(s.emitted))

\* yaml_emitter_emit: the emitter accepts the event or rejects it.  It
\* keeps the bytes of what it accepted in its own buffer, which a document
\* of the size modelled never fills, and passes all it holds to the write
\* handler at the end of a document and of the stream (written: the bytes
\* passed during the call)
yaml_emitter_emit(s, ev) ==
    LET t == [s EXCEPT !.emitted = Append(@, ev)]
    IN {IF ev.type \in {"DOCUMENT_END", "STREAM_END"}
        THEN [ok |-> TRUE, s |-> string_write(t, Pending(t)),
              written |-> Pending(t)]
        ELSE [ok |-> TRUE, s |-> t, written |-> << >>],
        [ok |-> FALSE, s |-> s, written |-> << >>]}

\* an event handed to yaml_emitter_emit, and what the emitter answered
Handed(ev, ok) == [ev |-> ev, ok |-> ok]

\* if (!yaml_emitter_emit(...)) { ser->error = UNKNOWN_ERROR; result = ... }
\* handed: the events the call has passed to the emitter, in order
EmitOne(s, ev) ==
    { IF r.ok THEN [ret |-> 0, s |-> r.s, ok |-> TRUE,
                    handed |-> <<Handed(ev, TRUE)>>, written |-> r.written]
      ELSE [ret |-> SERDEC_YAML_UNKNOWN_ERROR,
            s |-> [r.s EXCEPT !.error = SERDEC_YAML_UNKNOWN_ERROR],
            ok |-> FALSE, handed |-> <<Handed(ev, FALSE)>>,
            written |-> r.written]
      : r \in yaml_emitter_emit(s, ev) }

\* two emissions, the second skipped when the first has failed
EmitTwo_stop_at_failure(s, ev1, ev2) ==
    UNION { IF r1.ret # 0 THEN {r1}
            ELSE { [ret |-> r2.ret, s |-> r2.s, ok |-> r2.ok,
                    handed |-> r1.handed \o r2.handed,
                    written |-> r1.written \o r2.written]
                   : r2 \in EmitOne(r1.s, ev2) }
            : r1 \in EmitOne(s, ev1) }

\* two emissions, the call returning what the second returned
EmitTwo_second_result_only(s, ev1, ev2) ==
    UNION { { [ret |-> r2.ret, s |-> r2.s, ok |-> r1.ok /\ r2.ok,
               handed |-> r1.handed \o r2.handed,
               written |-> r1.written \o r2.written]
              : r2 \in EmitOne(r1.s, ev2) }
            : r1 \in EmitOne(s, ev1) }

\* two emissions in a row, the second made whatever the first returned
EmitTwo(s, ev1, ev2) ==
    UNION { { [ret |-> IF r2.ret # 0 THEN r2.ret ELSE r1.ret, s |-> r2.s,
               ok |-> r1.ok /\ r2.ok, handed |-> r1.handed \o r2.handed,
               written |-> r1.written \o r2.written]
              : r2 \in EmitOne(r1.s, ev2) }
            : r1 \in EmitOne(s, ev1) }

serdec_yaml_serialize_start(s) ==
    EmitTwo(s, Event("STREAM_START", << >>, "", "UTF8", FALSE, FALSE),
               Event("DOCUMENT_START", << >>, "", "1.1", FALSE, FALSE))

serdec_yaml_serialize_end(s) ==
    EmitTwo(s, Event("DOCUMENT_END", << >>, "", "", TRUE, FALSE),
               Event("STREAM_END", << >>, "", "", FALSE, FALSE))

serdec_yaml_serialize_map_start(s) ==
    EmitOne(s, Event("MAPPING_START", << >>, YAML_MAP_TAG, "ANY", TRUE, FALSE))

serdec_yaml_serialize_map_end(s) ==
    EmitOne(s, Event("MAPPING_END", << >>, "", "", FALSE, FALSE))

serdec_yaml_serialize_map_key(s, key) ==
    EmitOne(s, Event("SCALAR", key, YAML_STR_TAG, "PLAIN", TRUE, FALSE))

serdec_yaml_serialize_list_start(s) ==
    EmitOne(s, Event("SEQUENCE_START", << >>, "", "ANY", FALSE, FALSE))

\* list_end closing with the event of a map
serdec_yaml_serialize_list_end_as_map_end(s) ==
    EmitOne(s, Event("MAPPING_END", << >>, "", "", FALSE, FALSE))

serdec_yaml_serialize_list_end(s) ==
    EmitOne(s, Event("SEQUENCE_END", << >>, "", "", FALSE, FALSE))

serdec_yaml_serialize_bool(s, value) ==
    EmitOne(s, Event("SCALAR", IF value THEN TxtTrue ELSE TxtFalse,
                     YAML_STR_TAG, "PLAIN", TRUE, FALSE))

\* serialize_int writing the digits without the sign
serdec_yaml_serialize_int_unsigned(s, value) ==
    EmitOne(s, Event("SCALAR",
                     IF value >= 0 THEN FormatNat(value) ELSE FormatNeg(value),
                     YAML_INT_TAG, "PLAIN", TRUE, FALSE))

serdec_yaml_serialize_int(s, value) ==
    LET buffer == FormatInt(value)
        result == Len(buffer)
    IN IF 0 > result
       THEN {[ret |-> result,
              s |-> [s EXCEPT !.error = SERDEC_YAML_SYSTEM_ERROR],
              ok |-> TRUE, handed |-> << >>, written |-> << >>]}
       ELSE EmitOne(s, Event("SCALAR", buffer, YAML_INT_TAG, "PLAIN",
                             TRUE, FALSE))

\* serialize_string asking for the plain style
serdec_yaml_serialize_string_plain(s, value) ==
    EmitOne(s, Event("SCALAR", value, YAML_STR_TAG, "PLAIN", TRUE, TRUE))

serdec_yaml_serialize_string(s, value) ==
    EmitOne(s, Event("SCALAR", value, YAML_STR_TAG, "SINGLE_QUOTED",
                     TRUE, TRUE))

(* ---------------------- the encoding application ----------------------- *)
(* The application encodes one value, as a generated per-type encode       *)
(* function does: serialize_start, the calls of the value, well nested,    *)
(* serialize_end; it stops at the first call that fails.  app.script is    *)
(* the value, flattened into the calls made for it; app.nest is the stack  *)
(* of the containers under way ("key": a map waiting for a key or its end, *)
(* "val": a map waiting for the value of a key, "list"); app.nodes counts  *)
(* the root, the keys and the list elements written.                       *)

\* the values the application encodes
Bools == {TRUE, FALSE}
Ints == {INT_MIN, -7, 0, INT_MAX}
Strings == {TxtEmpty, TxtTrue}

NTop == IF app.nest = << >> THEN "root" ELSE app.nest[Len(app.nest)]

\* the innermost container under way has got one more value
Completed(nest) ==
    IF nest # << >> /\ nest[Len(nest)] = "val"
    THEN [nest EXCEPT ![Len(nest)] = "key"]
    ELSE nest

\* an encoder call may be made: the schema-driven application stops at the
\* first call that fails, any other goes on (up to MaxEmits events written)
CanEmit ==
    /\ ser.state = "open"
    /\ IF Keeps THEN app.enc_ok ELSE Len(ser.emitted) < MaxEmits

\* the schema-driven application makes a call only where c holds; any
\* other application makes any call anywhere
Ordered(c) == Keeps => c

\* a value may be written here
ValueFits ==
    /\ CanEmit
    /\ Ordered(/\ app.phase = "content"
               /\ NTop # "key"
               /\ NTop = "val" \/ app.nodes < MaxEvents)

CountNode == IF NTop = "val" THEN app.nodes ELSE app.nodes + 1

\* encoder call op returned r, having written items of the value
Emitted(op, r, items, nest, nodes, phase) ==
    /\ ser' = r.s
    /\ app' = IF Keeps
              THEN [app EXCEPT !.script = @ \o items,
                               !.enc_ok = @ /\ r.ret = 0,
                               !.accepted = @ /\ r.ok,
                               !.nest = nest, !.nodes = nodes, !.phase = phase]
              ELSE app
    /\ last' = [NoLog EXCEPT !.act = "emit", !.op = op, !.returned = TRUE,
                             !.ret = r.ret, !.len0 = Len(ser.emitted),
                             !.err0 = ser.error, !.handed = r.handed,
                             !.items = items, !.text = r.written]
    /\ UNCHANGED <<deser, stack>>

\* the application borrows the text written so far (text: what the call
\* returned, null: it returned a null pointer)
Borrow_string ==
    /\ ser.state = "open"
    /\ ~Keeps
    /\ LET r == serdec_yaml_serializer_borrow_string(ser)
       IN /\ ser' = r.s
          /\ last' = [NoLog EXCEPT !.act = "borrow", !.op = "borrow",
                                   !.returned = TRUE, !.text = r.text,
                                   !.null = r.null,
                                   !.len0 = Len(ser.emitted),
                                   !.err0 = ser.error]
    /\ UNCHANGED <<deser, stack, app>>

\* the phase once the value under way is complete
Rooted(nest) == IF nest = << >> THEN "rooted" ELSE "content"

SerializerNew ==
    /\ ser.state = "none"
    /\ app.phase = "encode"
    /\ ser' = serdec_yaml_serializer_new_string
    /\ last' = [NoLog EXCEPT !.act = "ser_new"]
    /\ UNCHANGED <<deser, stack, app>>

Serialize_start ==
    /\ CanEmit
    /\ Ordered(app.phase = "encode")
    /\ \E r \in serdec_yaml_serialize_start(ser) :
          Emitted("start", r, << >>, app.nest, app.nodes, "content")

Serialize_end ==
    /\ CanEmit
    /\ Ordered(app.phase = "rooted")
    /\ \E r \in serdec_yaml_serialize_end(ser) :
          Emitted("end", r, << >>, app.nest, app.nodes, "encoded")

Serialize_map_start ==
    /\ ValueFits
    /\ \E r \in serdec_yaml_serialize_map_start(ser) :
          Emitted("map_start", r, <<Mark("map_start")>>,
                  Append(app.nest, "key"), CountNode, "content")

Serialize_map_key ==
    /\ CanEmit
    /\ Ordered(NTop = "key" /\ app.nodes < MaxEvents)
    /\ \E key \in Keys :
          \E r \in serdec_yaml_serialize_map_key(ser, key) :
             Emitted("map_key", r, <<Item("key", FALSE, 0, key)>>,
                     [app.nest EXCEPT ![Len(app.nest)] = "val"],
                     app.nodes + 1, "content")

Serialize_map_end ==
    /\ CanEmit
    /\ Ordered(NTop = "key")
    /\ \E r \in serdec_yaml_serialize_map_end(ser) :
          Emitted("map_end", r, <<Mark("map_end")>>,
                  Completed(Pop(app.nest)), app.nodes, Rooted(Pop(app.nest)))

Serialize_list_start ==
    /\ ValueFits
    /\ \E r \in serdec_yaml_serialize_list_start(ser) :
          Emitted("list_start", r, <<Mark("list_start")>>,
                  Append(app.nest, "list"), CountNode, "content")

Serialize_list_end ==
    /\ CanEmit
    /\ Ordered(NTop = "list")
    /\ \E r \in serdec_yaml_serialize_list_end(ser) :
          Emitted("list_end", r, <<Mark("list_end")>>,
                  Completed(Pop(app.nest)), app.nodes, Rooted(Pop(app.nest)))

Serialize_bool ==
    /\ ValueFits
    /\ \E value \in Bools :
          \E r \in serdec_yaml_serialize_bool(ser, value) :
             Emitted("bool", r, <<Item("bool", value, 0, << >>)>>,
                     Completed(app.nest), CountNode, Rooted(app.nest))

Serialize_int ==
    /\ ValueFits
    /\ \E value \in Ints :
          \E r \in serdec_yaml_serialize_int(ser, value) :
             Emitted("int", r, <<Item("int", FALSE, value, << >>)>>,
                     Completed(app.nest), CountNode, Rooted(app.nest))

Serialize_string ==
    /\ ValueFits
    /\ \E value \in Strings :
          \E r \in serdec_yaml_serialize_string(ser, value) :
             Emitted("string", r, <<Item("string", FALSE, 0, value)>>,
                     Completed(app.nest), CountNode, Rooted(app.nest))

\* the application outside an encoding: nothing to encode, any decode call
FreeApp ==
    [mode |-> "free", phase |-> "decode", calls |-> 0, visits |-> 0,
     script |-> << >>, out |-> << >>, ok |-> TRUE, enc_ok |-> TRUE,
     accepted |-> TRUE, nest |-> << >>, nodes |-> 0, keeps |-> FALSE,
     held |-> 0]

\* the cursor model: any event source, any application
Init ==
    /\ deser = NewCursor(NewParser("any", << >>), 64)
    /\ stack = << >>
    /\ last = NoLog
    /\ ser = NoSession
    /\ app = FreeApp

Next ==
    \/ New
    \/ Call_map
    \/ Call_list
    \/ Call_bool
    \/ Call_int
    \/ Call_string
    \/ VisitorReturn
    \/ Free

Spec == Init /\ [][Next]_vars

\* the scalar model: a document whose root is one scalar of any of the
\* texts, on a build of either width of long
ScalarDocument(text) ==
    <<Ev("STREAM_START"), Ev("DOCUMENT_START"), Scalar(text),
      Ev("DOCUMENT_END"), Ev("STREAM_END")>>

InitScalar ==
    /\ \E text \in ScalarTexts, bits \in {32, 64} :
          deser = NewCursor(NewParser("replay", ScalarDocument(text)), bits)
    /\ stack = << >>
    /\ last = NoLog
    /\ ser = NoSession
    /\ app = [FreeApp EXCEPT !.keeps = TRUE]

NextScalar ==
    \/ New
    \/ Call_bool
    \/ Call_int
    \/ Call_string
    \/ Free

SpecScalar == InitScalar /\ [][NextScalar]_vars

\* the round-trip model: the application encodes a value, then decodes the
\* document written, on a build of either width of long
InitRT ==
    /\ \E bits \in {32, 64} : deser = NewCursor(NewParser("replay", << >>), bits)
    /\ stack = << >>
    /\ last = NoLog
    /\ ser = NoSession
    /\ app = [FreeApp EXCEPT !.mode = "schema", !.phase = "encode"]

NextRT ==
    \/ SerializerNew
    \/ Serialize_start
    \/ Serialize_map_start
    \/ Serialize_map_key
    \/ Serialize_map_end
    \/ Serialize_list_start
    \/ Serialize_list_end
    \/ Serialize_bool
    \/ Serialize_int
    \/ Serialize_string
    \/ Serialize_end
    \/ New
    \/ Call_map
    \/ Call_list
    \/ Call_bool
    \/ Call_int
    \/ Call_string
    \/ VisitorReturn
    \/ Free

SpecRT == InitRT /\ [][NextRT]_vars

\* the encoder model: an application that makes any encoder call at any
\* time, in any order, whatever the calls before have returned
InitEnc ==
    /\ deser = NewCursor(NewParser("replay", << >>), 64)
    /\ stack = << >>
    /\ last = NoLog
    /\ ser = NoSession
    /\ app = [FreeApp EXCEPT !.phase = "encode"]

NextEnc ==
    \/ SerializerNew
    \/ Serialize_start
    \/ Serialize_map_start
    \/ Serialize_map_key
    \/ Serialize_map_end
    \/ Serialize_list_start
    \/ Serialize_list_end
    \/ Serialize_bool
    \/ Serialize_int
    \/ Serialize_string
    \/ Serialize_end
    \/ Borrow_string

SpecEnc == InitEnc /\ [][NextEnc]_vars

(* ------------------- the older generation: gobiserde -------------------- *)
(* src/gobiserde/yaml.c: a cursor with the parser and one event slot; the  *)
(* decode calls interpret the event in the slot and then fetch the next    *)
(* one.  A call returns 1 when it has decoded, -EINVAL when the event is   *)
(* not what it decodes, and -1 * result when a fetch returned result = 0.  *)
(* The cursor is the record of the serdec cursor with the lookahead slot   *)
(* and the error slot left unused; frames and the log are shared too.      *)

EINVAL == 22

\* yaml_parser_parse(&deser->parser, &key_event), key_event a local
ParseLocal(d) ==
    { [ok |-> r.ok, key |-> r.d.event_buffer,
       d |-> [r.d EXCEPT !.event_buffer = 0]]
      : r \in yaml_parser_parse(d, "event_buffer") }

\* gobiserde_yaml_deserializer_new_string: the cursors it can return
RECURSIVE gobiserde_yaml_deserializer_new_string(_)
gobiserde_yaml_deserializer_new_string(d) ==
    UNION { IF ~r.ok THEN {[r.d EXCEPT !.state = "null"]}
            ELSE IF EventType(r.d, r.d.event)
                      \in {"STREAM_START", "DOCUMENT_START"}
            THEN gobiserde_yaml_deserializer_new_string(r.d)
            ELSE {[r.d EXCEPT !.state = "open"]}
            : r \in yaml_parser_parse(d, "event") }

\* the slot holds the end of the document or of the stream
AtEnd(d) == EventType(d, d.event) \in {"STREAM_END", "DOCUMENT_END"}

\* yaml_event_delete(&deser->event); result = yaml_parser_parse(...);
\* if (!result) return -1 * result; ... return 1;
FetchNext(d) ==
    { [ret |-> IF r.ok THEN 1 ELSE 0, d |-> r.d]
      : r \in yaml_parser_parse(yaml_event_delete(d, "event"), "event") }

gobiserde_yaml_deserialize_bool(d) ==
    IF AtEnd(d) THEN {Result(0, d)}
    ELSE IF EventType(d, d.event) # "SCALAR" THEN {Result(-EINVAL, d)}
    ELSE IF strcmp_equal(EventValue(d, d.event), TxtTrue)
    THEN { IF r.ret = 1
           THEN [Result(1, r.d) EXCEPT !.wrote = TRUE, !.vbool = TRUE]
           ELSE Result(r.ret, r.d) : r \in FetchNext(d) }
    ELSE IF strcmp_equal(EventValue(d, d.event), TxtFalse)
    THEN { IF r.ret = 1
           THEN [Result(1, r.d) EXCEPT !.wrote = TRUE, !.vbool = FALSE]
           ELSE Result(r.ret, r.d) : r \in FetchNext(d) }
    ELSE {Result(-EINVAL, d)}

gobiserde_yaml_deserialize_int(d) ==
    IF AtEnd(d) THEN {Result(0, d)}
    ELSE IF EventType(d, d.event) # "SCALAR" THEN {Result(-EINVAL, d)}
    ELSE LET text == CStr(EventValue(d, d.event))
             c == strtol(text, d.long_bits)
         IN IF c.end < Len(text) THEN {Result(-EINVAL, d)}
            ELSE { IF r.ret = 1
                   THEN [Result(1, r.d) EXCEPT !.wrote = TRUE,
                                               !.vint = c.value]
                   ELSE Result(r.ret, r.d) : r \in FetchNext(d) }

\* the loop of gobiserde_yaml_deserialize_map, from its test to the next
\* invocation of the visitor or to the return
GobiMapLoop(d, f) ==
    IF EventType(d, f.key_event) = "MAPPING_END"
    THEN {Return(r.ret, r.d, f) : r \in FetchNext(d)}
    ELSE { IF EventType(r.d, f.key_event) # "SCALAR" \/ ~r.ok
           THEN Return(-EINVAL, DeleteLocal(r.d, f.key_event), f)
           ELSE Invoke(r.d, Visit(f, r.d, 0, f.key_event))
           : r \in yaml_parser_parse(d, "event") }

gobiserde_yaml_deserialize_map(d) ==
    IF AtEnd(d) THEN {Return(0, d, NoFrame)}
    ELSE IF EventType(d, d.event) # "MAPPING_START"
    THEN {Return(-EINVAL, d, NoFrame)}
    ELSE UNION { IF ~r.ok THEN {Return(0, r.d, NewFrame("map", d))}
                 ELSE GobiMapLoop(r.d, [NewFrame("map", d)
                                           EXCEPT !.key_event = r.key])
                 : r \in ParseLocal(yaml_event_delete(d, "event")) }

\* the map call once its visitor has returned res: the key is released,
\* the next event is fetched if res is 0, and the slot is copied into
\* key_event
GobiMapAfterVisit(d, f, res) ==
    LET d1 == DeleteLocal(d, f.key_event)
    IN IF res = 0
       THEN UNION { GobiMapLoop(r.d, [f EXCEPT !.key_event = r.d.event])
                    : r \in FetchNext(d1) }
       ELSE GobiMapLoop(d1, [f EXCEPT !.key_event = d1.event])

\* the loop of gobiserde_yaml_deserialize_list
GobiListLoop(d, f) ==
    IF EventType(d, d.event) = "SEQUENCE_END"
    THEN {Return(r.ret, r.d, f) : r \in FetchNext(d)}
    ELSE {Invoke(d, Visit([f EXCEPT !.index = @ + 1], d, f.index, 0))}

gobiserde_yaml_deserialize_list(d) ==
    IF AtEnd(d) THEN {Return(0, d, NoFrame)}
    ELSE IF EventType(d, d.event) # "SEQUENCE_START"
    THEN {Return(-EINVAL, d, NoFrame)}
    ELSE UNION { IF r.ret = 0 THEN {Return(0, r.d, NewFrame("list", d))}
                 ELSE GobiListLoop(r.d, NewFrame("list", d))
                 : r \in FetchNext(d) }

\* yaml_parser_delete(&deser->event): the event slot handled as a parser,
\* which it is not.  The call frees what it reads as the parser's buffers
\* and zeroes the size of a parser from the slot on: the process stops, or
\* goes on with the slot zeroed and the event released or not
yaml_parser_delete_on_event(d) ==
    {[d EXCEPT !.state = "crashed"],
     yaml_event_delete(d, "event"),
     [d EXCEPT !.event = 0]}

\* the list call once its visitor has returned res
GobiListAfterVisit(d, f, res) ==
    IF res # 0 THEN GobiListLoop(d, f)
    ELSE UNION { IF d1.state = "crashed"
                 THEN {[kind |-> "crash", ret |-> 0, d |-> d1, f |-> f]}
                 ELSE UNION { IF r.ok THEN GobiListLoop(r.d, f)
                              ELSE {Return(0, r.d, f)}
                              : r \in yaml_parser_parse(d1, "event") }
                 : d1 \in yaml_parser_delete_on_event(d) }

Gobi_new ==
    /\ deser.state = "none"
    /\ \E d \in gobiserde_yaml_deserializer_new_string(deser) :
          /\ deser' = d
          /\ last' = [NoLog EXCEPT !.act = "new", !.returned = TRUE,
                                   !.nparse = d.nparse]
    /\ UNCHANGED <<stack, ser, app>>

Gobi_bool ==
    /\ CanCall("bool")
    /\ \E r \in gobiserde_yaml_deserialize_bool([deser EXCEPT !.nparse = 0]) :
          ScalarReturns("bool", r, Item("bool", r.vbool, 0, << >>))

Gobi_int ==
    /\ CanCall("int")
    /\ \E r \in gobiserde_yaml_deserialize_int([deser EXCEPT !.nparse = 0]) :
          ScalarReturns("int", r, Item("int", FALSE, r.vint, << >>))

Gobi_map ==
    /\ CanCall("map")
    /\ \E o \in gobiserde_yaml_deserialize_map([deser EXCEPT !.nparse = 0]) :
          /\ Followed(o)
          /\ ContainerStep("map", o, TRUE, -1, stack)

Gobi_list ==
    /\ CanCall("list")
    /\ \E o \in gobiserde_yaml_deserialize_list([deser EXCEPT !.nparse = 0]) :
          /\ Followed(o)
          /\ ContainerStep("list", o, TRUE, -1, stack)

\* the visitor of the innermost container call returns res: a failure
\* (-EINVAL), 0, or what a decode call returns on success (1)
Gobi_visitor_return ==
    /\ stack # << >>
    /\ \E res \in {-EINVAL, 0, 1} :
         LET f == Visited(Top, res)
             d0 == [deser EXCEPT !.nparse = 0]
         IN \E o \in (IF f.op = "map" THEN GobiMapAfterVisit(d0, f, res)
                      ELSE GobiListAfterVisit(d0, f, res)) :
               IF o.kind = "crash"
               THEN /\ deser' = o.d
                    /\ stack' = << >>
                    /\ last' = [NoLog EXCEPT !.act = "crash", !.op = f.op,
                                             !.cb = res]
                    /\ UNCHANGED <<ser, app>>
               ELSE /\ Followed(o)
                    /\ ContainerStep(f.op, o, FALSE, res, Pop(stack))

\* the gobiserde model: any event source, any application
InitGobi ==
    /\ deser = NewCursor(NewParser("any", << >>), 64)
    /\ stack = << >>
    /\ last = NoLog
    /\ ser = NoSession
    /\ app = FreeApp

NextGobi ==
    \/ Gobi_new
    \/ Gobi_map
    \/ Gobi_list
    \/ Gobi_bool
    \/ Gobi_int
    \/ Gobi_visitor_return

SpecGobi == InitGobi /\ [][NextGobi]_vars

(* ------------------- the container loops, unbounded -------------------- *)
(* The specifications above follow at most MaxVisits visitor invocations.  *)
(* Here the loops of deserialize_map and deserialize_list run as long as   *)
(* the code runs them, with visitors that return success.  What grows      *)
(* without bound is folded: the frame keeps the records of its last        *)
(* MaxVisits invocations, the list index (a size_t) is followed modulo     *)
(* MaxVisits + 2, and app.visits counts up to MaxVisits and then           *)
(* alternates.  The cursor itself is followed exactly.                     *)

FoldFrame(f) ==
    [f EXCEPT !.visits = IF Len(@) > MaxVisits THEN Tail(@) ELSE @,
              !.index = @ % (MaxVisits + 2)]

FoldVisits(n) == IF n <= MaxVisits THEN n + 1 ELSE MaxVisits

\* a visitor returns success; the container call goes on as the code does
VisitorReturnsSuccess ==
    /\ stack # << >>
    /\ LET f == Visited(Top, 0)
           d0 == [deser EXCEPT !.nparse = 0]
       IN \E o \in (IF f.op = "map" THEN MapAfterVisit(d0, f, 0)
                    ELSE ListAfterVisit(d0, f, 0)) :
             /\ deser' = o.d
             /\ last' = Log("vreturn", f.op, o.kind = "return", o.ret, 0,
                            Result(o.ret, o.d), FoldFrame(o.f))
             /\ IF o.kind = "return"
                THEN /\ stack' = AfterCall(Pop(stack), o.ret, o.f.good)
                     /\ app' = app
                ELSE /\ stack' = Append(Pop(stack), FoldFrame(o.f))
                     /\ app' = [app EXCEPT !.visits = FoldVisits(@)]
             /\ UNCHANGED ser

NextLoop ==
    \/ New
    \/ Call_map
    \/ Call_list
    \/ Call_bool
    \/ Call_int
    \/ Call_string
    \/ VisitorReturnsSuccess

\* a visitor that is running returns, and the loop that called it runs on
SpecLoop == Init /\ [][NextLoop]_vars /\ WF_vars(VisitorReturnsSuccess)

(* ------------------- reference reading of the source ------------------- *)
(* What the events produced so far (deser.src) are, read as a document,    *)
(* independently of the cursor.                                            *)

\* the index of the last event of the value whose first event is src[i],
\* 0 when no complete value starts there
RECURSIVE ScanEnd(_, _, _)
ScanEnd(src, i, depth) ==
    IF i > Len(src) THEN 0
    ELSE IF src[i].type \in {"MAPPING_START", "SEQUENCE_START"}
    THEN ScanEnd(src, i + 1, depth + 1)
    ELSE IF src[i].type \in {"MAPPING_END", "SEQUENCE_END"}
    THEN (IF depth = 1 THEN i
          ELSE IF depth = 0 THEN 0 ELSE ScanEnd(src, i + 1, depth - 1))
    ELSE IF src[i].type = "SCALAR"
    THEN (IF depth = 0 THEN i ELSE ScanEnd(src, i + 1, depth))
    ELSE 0

ValueEnd(src, i) == ScanEnd(src, i, 0)

\* every key of the map entries that start at or after src[i] is a scalar
RECURSIVE KeysScalar(_, _)
KeysScalar(src, i) ==
    IF i > Len(src) \/ src[i].type = "MAPPING_END" THEN TRUE
    ELSE /\ src[i].type = "SCALAR"
         /\ \/ ValueEnd(src, i + 1) = 0
            \/ KeysScalar(src, ValueEnd(src, i + 1) + 1)

\* visits[j..] are the entries of the map from src[i] on, one visit per
\* entry, in order, through the MAPPING_END that is the last event produced
RECURSIVE MapMatches(_, _, _, _)
MapMatches(src, i, visits, j) ==
    IF j > Len(visits)
    THEN i = Len(src) /\ src[i].type = "MAPPING_END"
    ELSE /\ i < Len(src)
         /\ src[i].type = "SCALAR"
         /\ visits[j].key = i
         /\ visits[j].keytext = src[i].value
         /\ visits[j].to = ValueEnd(src, i + 1)
         /\ visits[j].to # 0
         /\ MapMatches(src, visits[j].to + 1, visits, j + 1)

\* visits[j..] are the elements of the list from src[i] on, with indices
\* j-1, ..., through the SEQUENCE_END that is the last event produced
RECURSIVE ListMatches(_, _, _, _)
ListMatches(src, i, visits, j) ==
    IF j > Len(visits)
    THEN i = Len(src) /\ src[i].type = "SEQUENCE_END"
    ELSE /\ i <= Len(src)
         /\ visits[j].arg = j - 1
         /\ visits[j].from = i
         /\ visits[j].to = ValueEnd(src, i)
         /\ visits[j].to # 0
         /\ ListMatches(src, visits[j].to + 1, visits, j + 1)

\* the source failed during the last step
SourceFailedNow == last.pst0 # "error" /\ deser.parser.st = "error"

\* the index of the event the last decode call made current and
\* interpreted, from the state before the call: the buffered event if there
\* was one, else the event the call fetched (0: an empty event)
Interpreted ==
    IF last.buf0 # 0 THEN last.buf0
    ELSE IF Len(deser.src) > last.len0 THEN last.len0 + 1 ELSE 0

InterpretedType == EventType(deser, Interpreted)

\* the last step was a call of decode primitive op whose first event was
\* produced without a failure of the source
Called(op) ==
    /\ last.act = "call"
    /\ last.op = op
    /\ ~(last.buf0 = 0 /\ last.pst0 # "error" /\ deser.parser.st = "error"
         /\ Len(deser.src) = last.len0)

(* ------------------------------ claims --------------------------------- *)

ScalarOps == {"bool", "int", "string"}

\* the application has encoded so far without a rejection by the emitter
Accepted == app.mode = "schema" /\ app.accepted

\* the application is decoding the document it encoded
Decoding == Accepted /\ app.phase = "decode"

\* the decode call the application made on the root value has returned
RootDecoded ==
    Decoding /\ deser.state = "open" /\ stack = << >> /\ app.calls > 0

\* the decoding can take a step: a decode call or the return of a visitor
CanGoOn ==
    \/ \E op \in ScalarOps : CanCall(op)
    \/ /\ CanCall("map")
       /\ \E o \in serdec_yaml_deserialize_map(deser) : Followed(o)
    \/ /\ CanCall("list")
       /\ \E o \in serdec_yaml_deserialize_list(deser) : Followed(o)
    \/ /\ stack # << >>
       /\ \E res \in VisitorResults :
             \E o \in (IF Top.op = "map"
                       THEN MapAfterVisit(deser, Visited(Top, res), res)
                       ELSE ListAfterVisit(deser, Visited(Top, res), res)) :
                Followed(o)

IsPrefix(a, b) == Len(a) <= Len(b) /\ SubSeq(b, 1, Len(a)) = a

\* C1: round trip.  A value of maps with scalar keys, lists, booleans,
\* integers and strings, encoded by well-nested calls that the emitter
\* accepts, and decoded from the events written by visitors that make one
\* decode call each, comes back equal: every encoder call returns 0, the
\* cursor opens, every decode call returns 0, the decoding goes on until
\* the root call has returned, and the value decoded is then the original.
C1_RoundTrip ==
    /\ Accepted => app.enc_ok
    /\ Decoding
       => /\ deser.state # "null"
          /\ app.ok
          /\ IsPrefix(app.out, app.script)
    /\ (Decoding /\ deser.state = "open" /\ app.out # app.script)
       => CanGoOn
    /\ RootDecoded => app.out = app.script

\* C1 witness: a map holding a list that holds the least integer has made
\* the round trip
C1_Witness ==
    /\ RootDecoded
    /\ app.out = app.script
    /\ app.script[1].k = "map_start"
    /\ \E i \in 1..Len(app.script) : app.script[i].k = "list_start"
    /\ \E i \in 1..Len(app.script) :
          app.script[i] = Item("int", FALSE, INT_MIN, << >>)

\* a container call of kind op has just returned, having found its start
\* event, with every visitor invocation it made having made exactly one
\* decode call, of the kind of the value it met, and returned 0, and
\* without a failure of the source
ReturnedGood(op) ==
    /\ last.returned
    /\ last.op = op
    /\ last.start # 0
    /\ last.good
    /\ deser.parser.st # "error"

\* C2: a map call whose visitors each consume exactly one value, on a map
\* with scalar keys, returns 0 having invoked the visitor once per entry, in
\* document order, with that entry's key text, each invocation consuming
\* exactly the events of that entry's value.
C2_MapVisitsEveryEntry ==
    (ReturnedGood("map") /\ KeysScalar(deser.src, last.start + 1))
    => /\ last.ret = 0
       /\ MapMatches(deser.src, last.start + 1, last.visits, 1)

\* C2 witness: a map of two entries with different keys has been decoded
C2_Witness ==
    /\ ReturnedGood("map")
    /\ last.ret = 0
    /\ Len(last.visits) = 2
    /\ last.visits[1].keytext # last.visits[2].keytext

\* every visitor invocation recorded in visits got as index the number of
\* invocations before it
IndicesCount(visits) == \A j \in 1..Len(visits) : visits[j].arg = j - 1

\* C3: a list call passes its visitor the indices 0, 1, ... in order, each
\* the number of its own earlier invocations, whatever nested list calls the
\* visitors make; with visitors that consume one element each it returns 0
\* after exactly one invocation per element.
C3_ListIndices ==
    /\ \A k \in 1..Len(stack) :
          stack[k].op = "list" =>
             /\ IndicesCount(stack[k].visits)
             /\ stack[k].index = Len(stack[k].visits)
    /\ (last.op = "list" /\ last.returned) => IndicesCount(last.visits)
    /\ ReturnedGood("list")
       => /\ last.ret = 0
          /\ ListMatches(deser.src, last.start + 1, last.visits, 1)

\* C3 witness: a list of two elements, the second a nested list decoded by
\* a nested list call, has been decoded
C3_Witness ==
    /\ ReturnedGood("list")
    /\ last.ret = 0
    /\ Len(last.visits) = 2
    /\ last.visits[2].to > last.visits[2].from
    /\ deser.src[last.visits[2].from].type = "SEQUENCE_START"

\* C4: when a visitor returns non-zero the container call returns
\* CallbackSignaledError in that same step: no further visitor invocation,
\* no call of the parser.
C4_CallbackFailureStops ==
    (last.act = "vreturn" /\ last.cb # 0)
    => /\ last.returned
       /\ last.ret = SERDEC_YAML_CALLBACK_SIGNALED_ERROR
       /\ deser.error = SERDEC_YAML_CALLBACK_SIGNALED_ERROR
       /\ last.nparse = 0
       /\ Len(deser.src) = last.len0
       /\ Len(stack) = last.depth0 - 1

\* C4 witness: the visitor of a map failed on the second entry
C4_Witness ==
    /\ last.act = "vreturn"
    /\ last.cb # 0
    /\ last.op = "map"
    /\ Len(last.visits) = 2

EndOf(op) == IF op = "map" THEN "MAPPING_END" ELSE "SEQUENCE_END"

\* the last call was a container call whose start event is immediately
\* followed by its end event
EmptyContainer ==
    /\ last.op \in {"map", "list"}
    /\ last.act = "call"
    /\ last.start # 0
    /\ last.start < Len(deser.src)
    /\ deser.src[last.start + 1].type = EndOf(last.op)

\* C7: decoding an empty map or an empty list returns 0 without invoking
\* the visitor.
C7_EmptyContainer ==
    EmptyContainer
    => /\ last.returned
       /\ last.ret = 0
       /\ last.visits = << >>
       /\ Len(stack) = last.depth0

\* C7 witness: an empty list was decoded
C7_Witness == EmptyContainer /\ last.op = "list" /\ last.returned

\* C8: a map call whose next event is not MappingStart, and a list call
\* whose next event is not SequenceStart, fail with UnexpectedEvent and
\* never invoke the visitor.
C8_WrongStartEvent ==
    /\ (Called("map") /\ InterpretedType # "MAPPING_START")
       => /\ last.returned
          /\ last.ret = SERDEC_YAML_UNEXPECTED_EVENT
          /\ deser.error = SERDEC_YAML_UNEXPECTED_EVENT
          /\ last.visits = << >>
          /\ Len(stack) = last.depth0
    /\ (Called("list") /\ InterpretedType # "SEQUENCE_START")
       => /\ last.returned
          /\ last.ret = SERDEC_YAML_UNEXPECTED_EVENT
          /\ deser.error = SERDEC_YAML_UNEXPECTED_EVENT
          /\ last.visits = << >>
          /\ Len(stack) = last.depth0

\* C8 witness: a map call met a SequenceStart event
C8_Witness == Called("map") /\ InterpretedType = "SEQUENCE_START"

\* C9: a scalar decode call whose event is not a Scalar fails with
\* UnexpectedEvent.
C9_ScalarNeedsScalar ==
    (\E op \in ScalarOps : Called(op) /\ InterpretedType # "SCALAR")
    => /\ last.ret = SERDEC_YAML_UNEXPECTED_EVENT
       /\ deser.error = SERDEC_YAML_UNEXPECTED_EVENT
       /\ ~last.wrote

\* C9 witness: deserialize_string met a MappingEnd event
C9_Witness == Called("string") /\ InterpretedType = "MAPPING_END"

\* the last step was a scalar decode call that failed with one of the three
\* errors of the scalar decoders
ScalarFailed ==
    /\ last.act = "call"
    /\ last.op \in ScalarOps
    /\ last.ret \in {SERDEC_YAML_UNEXPECTED_EVENT,
                     SERDEC_YAML_INVALID_BOOLEAN_TOKEN,
                     SERDEC_YAML_SYSTEM_ERROR}

\* C10 as claimed: after a failed scalar decode call the current event is
\* the event the cursor held before the call.
C10_Claimed == ScalarFailed => deser.event = last.ev0

\* C10 as amended: a scalar decode call advances the cursor before it
\* interprets the event, on success and on failure alike: after the call
\* the current event is the event the call interpreted (the next event of
\* the source) and the event held before the call has been released.
C10_AdvancesAlways ==
    (\E op \in ScalarOps : Called(op))
    => /\ deser.event = Interpreted
       /\ last.ev0 # 0 => (deser.event # last.ev0 /\ deser.freed[last.ev0] = 1)

\* C10 witness: deserialize_bool failed on a scalar that is not a boolean,
\* leaving that scalar as the current event in place of the one held before
C10_Witness ==
    /\ ScalarFailed
    /\ last.op = "bool"
    /\ last.ret = SERDEC_YAML_INVALID_BOOLEAN_TOKEN
    /\ last.ev0 # 0
    /\ deser.event # last.ev0

\* the last step was the scalar decode call op, made on a Scalar event
OnScalar(op) == Called(op) /\ InterpretedType = "SCALAR"

\* the whole text of the scalar the last call interpreted, as the event
\* source gave it
InterpretedText == EventValue(deser, Interpreted)

\* C5: deserialize_bool on a Scalar succeeds exactly when the scalar text
\* is "true" (yielding true) or "false" (yielding false), and fails with
\* InvalidBooleanToken on every other text.
C5_BoolExactlyTrueFalse ==
    OnScalar("bool")
    => IF InterpretedText \in {TxtTrue, TxtFalse}
       THEN /\ last.ret = 0
            /\ last.wrote
            /\ last.vbool = (InterpretedText = TxtTrue)
       ELSE /\ last.ret = SERDEC_YAML_INVALID_BOOLEAN_TOKEN
            /\ deser.error = SERDEC_YAML_INVALID_BOOLEAN_TOKEN
            /\ ~last.wrote

\* text is a base-10 signed integer and nothing else: optional white space,
\* an optional sign, one digit or more
IsIntegerText(text) ==
    LET s == SkipSpace(text, 1)
        ds == IF s <= Len(text) /\ text[s] \in {"-", "+"} THEN s + 1 ELSE s
    IN /\ ds <= Len(text)
       /\ \A i \in ds..Len(text) : IsDigit(text[i])

\* the canonical decimal text of the integer that an integer text denotes
Denoted(text) ==
    LET s == SkipSpace(text, 1)
        signed == text[s] \in {"-", "+"}
        mag == StripZeros(SubSeq(text, IF signed THEN s + 1 ELSE s, Len(text)))
    IN IF text[s] = "-" /\ mag # <<"0">> THEN <<"-">> \o mag ELSE mag

\* C6: deserialize_int on a Scalar yields the integer the text denotes when
\* the text is a base-10 signed integer, fails with SystemError when
\* characters remain after the parsed prefix, and never succeeds on a text
\* parsed in part.
C6_IntWholeText ==
    OnScalar("int")
    => IF IsIntegerText(InterpretedText)
       THEN /\ last.ret = 0
            /\ last.wrote
            /\ FormatInt(last.vint) = Denoted(InterpretedText)
       ELSE /\ last.ret = SERDEC_YAML_SYSTEM_ERROR
            /\ deser.error = SERDEC_YAML_SYSTEM_ERROR
            /\ ~last.wrote

\* C11: the error slot of a cursor is set at most once: once it holds an
\* error code, no later decode call (or return of a container call into
\* which a visitor has returned) changes it.
C11_ErrorSetOnce ==
    (last.act \in {"call", "vreturn"} /\ last.err0 # SERDEC_YAML_NO_ERROR)
    => deser.error = last.err0

\* C12: a decode call made on a cursor whose error slot is set fails fast:
\* it returns a failure signal, fetches no event from the source and
\* invokes no visitor.
C12_FailFast ==
    (last.act = "call" /\ last.err0 # SERDEC_YAML_NO_ERROR)
    => /\ last.returned
       /\ last.ret # 0
       /\ last.nparse = 0
       /\ Len(deser.src) = last.len0
       /\ last.visits = << >>

\* the last step was a construction of a cursor
Constructed == last.act = "new"

\* the events before the last one produced are all StreamStart or
\* DocumentStart, and the last one is neither
PreambleThenOne(src) ==
    /\ Len(src) >= 1
    /\ \A i \in 1..(Len(src) - 1) :
          src[i].type \in {"STREAM_START", "DOCUMENT_START"}
    /\ ~(src[Len(src)].type \in {"STREAM_START", "DOCUMENT_START"})

\* C13: construction returns no cursor (NULL) exactly when the source
\* failed before the first content-bearing or terminal event was produced;
\* when the preamble events and the first event after them are produced
\* without failure it returns a usable cursor, having fetched just those.
C13_ConstructionFailsWithSource ==
    Constructed
    => /\ deser.state = "null" <=> deser.parser.st = "error"
       /\ deser.state = "null"
          => /\ \A i \in 1..Len(deser.src) :
                   deser.src[i].type \in {"STREAM_START", "DOCUMENT_START"}
             /\ last.nparse = Len(deser.src) + 1
       /\ deser.state = "open"
          => /\ PreambleThenOne(deser.src)
             /\ last.nparse = Len(deser.src)
             /\ deser.error = SERDEC_YAML_NO_ERROR

\* C13 witness: the source failed after StreamStart and DocumentStart, on
\* the fetch of the first event of the content, and no cursor was returned
C13_Witness ==
    /\ Constructed
    /\ deser.state = "null"
    /\ Len(deser.src) = 2

Containers == {"map", "list"}

\* a container call has just returned with every visitor invocation it made
\* having consumed one value, on a container that is well formed for it
ReturnedWell ==
    /\ \E op \in Containers : ReturnedGood(op)
    /\ last.op = "map" => KeysScalar(deser.src, last.start + 1)

\* the index of the first event of the value of visit v of a call of kind op
ValueStart(op, v) == IF op = "map" THEN v.from + 1 ELSE v.from

\* C14: visitors may re-enter the cursor.  A container call made inside a
\* visitor consumes exactly the events of the nested container: when it
\* returns, the last event fetched is its matching end event, which has
\* been released and is in neither slot, and the enclosing call is still
\* inside the same visitor invocation.  The enclosing call then goes on to
\* its next entry: a call whose entries hold containers returns 0 having
\* invoked its visitor exactly once per entry of its own.
C14_NestedCalls ==
    /\ (ReturnedWell /\ stack # << >>)
       => /\ last.ret = 0
          /\ Len(deser.src) = ValueEnd(deser.src, last.start)
          /\ deser.src[Len(deser.src)].type = EndOf(last.op)
          /\ deser.freed[Len(deser.src)] = 1
          /\ deser.event_buffer = 0
          /\ Len(stack) = IF last.act = "call" THEN last.depth0
                          ELSE last.depth0 - 1
          /\ Top.visits[Len(Top.visits)].to = 0
          /\ Top.op = "list" => Top.index = Len(Top.visits)
    /\ (/\ ReturnedWell
        /\ \E j \in 1..Len(last.visits) :
              deser.src[ValueStart(last.op, last.visits[j])].type
                 \in {"MAPPING_START", "SEQUENCE_START"})
       => /\ last.ret = 0
          /\ IF last.op = "map"
             THEN MapMatches(deser.src, last.start + 1, last.visits, 1)
             ELSE ListMatches(deser.src, last.start + 1, last.visits, 1)

\* C14 witness: a map whose entry holds a list with an element has been
\* decoded by a list call made inside the visitor of the map
C14_Witness ==
    /\ ReturnedWell
    /\ last.op = "map"
    /\ last.ret = 0
    /\ Len(last.visits) = 1
    /\ deser.src[last.visits[1].from + 1].type = "SEQUENCE_START"
    /\ last.visits[1].to >= last.visits[1].from + 3

\* C15: the text returned by deserialize_string is a copy owned by the
\* caller: it stays valid (the storage it points into is not released)
\* after any later decode call on the same cursor.
C15_StringStaysValid ==
    app.held # 0 => deser.freed[app.held] = 0

\* a decode call has just returned a failure
FailedDecode ==
    last.act \in {"call", "vreturn"} /\ last.returned /\ last.ret # 0

\* C16: after any failing decode call serdec_yaml_deserializer_strerror
\* returns a non-null description of the failure, whatever the error kind
\* (UnknownError, SystemError, UnexpectedEvent, InvalidBooleanToken,
\* CallbackSignaledError).
C16_StrerrorDescribesFailure ==
    FailedDecode => NULL \notin serdec_yaml_deserializer_strerror(deser)

\* a scalar decode or encode call has just returned a failure
ScalarCallFailed ==
    /\ last.act \in {"call", "emit"}
    /\ last.op \in ScalarOps
    /\ last.returned
    /\ last.ret # 0

\* C17: serdec_yaml_deserialize_bool/int/string and
\* serdec_yaml_serialize_bool/int/string return a number less than zero
\* whenever they encounter an error.
C17_ErrorsAreNegative ==
    ScalarCallFailed => last.ret < 0

\* an encoder call of one of ops has just returned
EncoderCall(ops) == last.act = "emit" /\ last.op \in ops /\ last.returned

\* the kinds of the events the call handed to the sink, in order
HandedKinds == [i \in 1..Len(last.handed) |-> last.handed[i].ev.type]

\* the events of the call that the sink accepted, in order
AcceptedEvents ==
    LET acc == SelectSeq(last.handed, LAMBDA h : h.ok)
    IN [i \in 1..Len(acc) |-> acc[i].ev]

\* the sink has got the accepted events of the call after all it had
Forwarded ==
    /\ Len(ser.emitted) = last.len0 + Len(AcceptedEvents)
    /\ SubSeq(ser.emitted, last.len0 + 1, Len(ser.emitted)) = AcceptedEvents

\* C18: serialize_start hands the sink a StreamStart event and then a
\* DocumentStart event, serialize_end a DocumentEnd event and then a
\* StreamEnd event; each call hands exactly these two events, whatever the
\* sink answers to the first.
C18_EnvelopeEvents ==
    /\ EncoderCall({"start"})
           => HandedKinds = <<"STREAM_START", "DOCUMENT_START">>
    /\ EncoderCall({"end"})
           => HandedKinds = <<"DOCUMENT_END", "STREAM_END">>
    /\ EncoderCall({"start", "end"}) => Forwarded

C18_Witness ==
    /\ EncoderCall({"end"})
    /\ ~last.handed[1].ok
    /\ last.handed[2].ok
    /\ Len(ser.emitted) = 3
    /\ ser.emitted[1].type = "STREAM_START"
    /\ ser.emitted[2].type = "DOCUMENT_START"
    /\ ser.emitted[3].type = "STREAM_END"

StructuralOps ==
    {"map_start", "map_end", "map_key", "list_start", "list_end",
     "bool", "int", "string"}

\* the kind of event a call is named after
KindOf(op) ==
    CASE op = "map_start" -> "MAPPING_START"
      [] op = "map_end" -> "MAPPING_END"
      [] op = "list_start" -> "SEQUENCE_START"
      [] op = "list_end" -> "SEQUENCE_END"
      [] op \in {"map_key", "bool", "int", "string"} -> "SCALAR"

\* C19: whatever calls came before, each of map_start, map_end, map_key,
\* list_start, list_end, serialize_bool, serialize_int and serialize_string
\* hands the sink exactly one event, of the kind named by the call, after
\* the events of the calls before; the call fails exactly when the sink
\* rejects that event.
C19_OneEventPerCall ==
    EncoderCall(StructuralOps)
    => /\ HandedKinds = <<KindOf(last.op)>>
       /\ Forwarded
       /\ last.ret # 0 <=> ~last.handed[1].ok

\* a list closed where no list is open: inside a map, after a key
C19_Witness ==
    /\ EncoderCall({"list_end"})
    /\ last.len0 = 2
    /\ ser.emitted[1].type = "MAPPING_START"
    /\ ser.emitted[2].type = "SCALAR"
    /\ last.handed[1].ok

EncoderOps == StructuralOps \cup {"start", "end"}

\* C20: an encoder call whose event the sink rejects sets the error slot to
\* UnknownError and returns non-zero; a call whose events the sink all
\* accepts returns 0 and leaves the error slot as it was.
C20_SinkRejection ==
    EncoderCall(EncoderOps)
    => IF \E i \in 1..Len(last.handed) : ~last.handed[i].ok
       THEN ser.error = SERDEC_YAML_UNKNOWN_ERROR /\ last.ret # 0
       ELSE last.ret = 0 /\ ser.error = last.err0

\* the sink rejects the first event of serialize_start and accepts the second
C20_Witness ==
    /\ EncoderCall({"start"})
    /\ ~last.handed[1].ok
    /\ last.handed[2].ok
    /\ last.err0 = SERDEC_YAML_NO_ERROR

\* the integer that the digits ds denote, and its opposite (the opposite of
\* INT_MIN has no int)
RECURSIVE NatOf(_)
NatOf(ds) ==
    IF ds = << >> THEN 0
    ELSE NatOf(SubSeq(ds, 1, Len(ds) - 1)) * 10 + DigitVal(ds[Len(ds)])

RECURSIVE NegOf(_)
NegOf(ds) ==
    IF ds = << >> THEN 0
    ELSE NegOf(SubSeq(ds, 1, Len(ds) - 1)) * 10 - DigitVal(ds[Len(ds)])

\* text is the base-10 text of the integer v: digits without leading
\* zeros, after a minus sign when v is negative
IsBase10Of(text, v) ==
    LET ds == IF v < 0 THEN Tail(text) ELSE text
    IN /\ text # << >>
       /\ v < 0 => text[1] = "-"
       /\ ds # << >>
       /\ \A i \in 1..Len(ds) : IsDigit(ds[i])
       /\ Len(ds) > 1 => ds[1] # "0"
       /\ v = (IF v < 0 THEN NegOf(ds) ELSE NatOf(ds))

ScalarWriters == {"bool", "int", "string", "map_key"}

\* C21: each scalar writer hands the sink one Scalar event: serialize_bool
\* the text "true" or "false" in the plain style, serialize_int the base-10
\* text of the integer in the plain style with the integer tag,
\* serialize_string the given text in a quoted style, map_key the key text
\* in the plain style.
C21_ScalarWriters ==
    EncoderCall(ScalarWriters)
    => /\ Len(last.handed) = 1
       /\ Len(last.items) = 1
       /\ LET ev == last.handed[1].ev
              it == last.items[1]
          IN /\ ev.type = "SCALAR"
             /\ last.op = "bool"
                   => /\ ev.value = (IF it.b THEN <<"t", "r", "u", "e">>
                                     ELSE <<"f", "a", "l", "s", "e">>)
                      /\ ev.style = "PLAIN" /\ ev.implicit
             /\ last.op = "int"
                   => /\ IsBase10Of(ev.value, it.i)
                      /\ ev.style = "PLAIN" /\ ev.implicit
                      /\ ev.tag = "tag:yaml.org,2002:int"
             /\ last.op = "string"
                   => /\ ev.value = it.s
                      /\ ev.style \in {"SINGLE_QUOTED", "DOUBLE_QUOTED"}
             /\ last.op = "map_key"
                   => /\ ev.value = it.s
                      /\ ev.style = "PLAIN" /\ ev.implicit

\* the smallest int written, after a string was
C21_Witness ==
    /\ EncoderCall({"int"})
    /\ last.items[1].i = INT_MIN
    /\ last.handed[1].ok
    /\ last.len0 = 1
    /\ ser.emitted[1].style = "SINGLE_QUOTED"

\* the kinds of sink other than the string sink
OtherKinds == {1, 2}

\* C22: every encoder call adds to the text of the string sink the bytes
\* written during the call, in write order, and
\* serdec_yaml_serializer_borrow_string returns that text and changes
\* nothing of the session, its error slot included; on a session of any
\* other kind it returns no text and sets the error slot to WrongType.
C22_BorrowString ==
    [][/\ last'.act = "emit" => ser'.data = ser.data \o last'.text
       /\ last'.act = "borrow"
             => /\ ~last'.null
                /\ last'.text = ser.data
                /\ ser' = ser
                /\ \A t \in OtherKinds :
                      LET o == [ser EXCEPT !.type = t]
                          r == serdec_yaml_serializer_borrow_string(o)
                      IN /\ r.null
                         /\ r.s = [o EXCEPT !.error = SERDEC_YAML_WRONG_TYPE]]_vars

\* a whole document borrowed, with a failure recorded before it
C22_Witness ==
    /\ last.act = "borrow"
    /\ Len(last.text) = 3
    /\ last.text = ser.emitted
    /\ last.text[3].type = "STREAM_END"
    /\ ser.error = SERDEC_YAML_UNKNOWN_ERROR

\* the event source has failed during the decode call that just returned
SourceFailedInCall ==
    /\ last.act \in {"call", "vreturn"}
    /\ last.returned
    /\ last.pst0 # "error"
    /\ deser.parser.st = "error"

\* C23: gobiserde_yaml_deserialize_map, _list, _bool and _int return a
\* non-zero value whenever parsing encountered an error, a failure of the
\* event source while fetching the next event included.
C23_GobiErrorsNonZero ==
    SourceFailedInCall => last.ret # 0

\* the last step ran the loop of a map call: from its entry, past the
\* check of the start event, or from the return of its visitor
MapLooped ==
    /\ last.act \in {"call", "vreturn"}
    /\ last.op = "map"
    /\ last.start # 0

\* C24: when the fetch of the lookahead event fails while deserialize_map
\* loops over its entries, the call fails with UnknownError: it returns a
\* failure signal, not success.
C24_MapPeekFailure ==
    (MapLooped /\ last.pst0 # "error" /\ deser.parser.st = "error")
    => /\ last.returned
       /\ last.ret = SERDEC_YAML_UNKNOWN_ERROR
       /\ deser.error = SERDEC_YAML_UNKNOWN_ERROR

\* the event that the visitor just invoked has got as its key
KeyGiven == last.visits[Len(last.visits)].key

\* C25: deserialize_map invokes its visitor only with a Scalar event as the
\* key: when the event peeked at a key position is neither MappingEnd nor
\* a Scalar the call fails with UnexpectedEvent instead.
C25_KeyMustBeScalar ==
    /\ (MapLooped /\ ~last.returned)
          => EventType(deser, KeyGiven) = "SCALAR"
    /\ (MapLooped /\ last.returned /\ last.nparse > 0
          /\ Len(deser.src) > last.len0
          /\ deser.src[Len(deser.src)].type \notin {"MAPPING_END", "SCALAR"}
          /\ deser.parser.st # "error")
          => last.ret = SERDEC_YAML_UNEXPECTED_EVENT

\* a scalar decode call has just succeeded
ScalarSucceeded ==
    /\ last.act = "call"
    /\ last.op \in ScalarOps
    /\ last.ret = 0

\* a container call has just returned success, having consumed its start
\* event
ContainerSucceeded ==
    /\ last.act \in {"call", "vreturn"}
    /\ last.op \in Containers
    /\ last.returned
    /\ last.ret = 0
    /\ last.start # 0

\* a container call has just returned success, each of its visitors having
\* consumed one value (the source may have failed: a map call then returns
\* success all the same)
GoodVisitors ==
    /\ ContainerSucceeded
    /\ last.good
    /\ last.op = "map" => KeysScalar(deser.src, last.start + 1)

\* C26 as claimed: after a successful decode primitive the current event is
\* the event following the value just decoded (or the container
\* terminator), never the event the primitive has just interpreted.
C26_CurrentIsNext ==
    /\ ScalarSucceeded => deser.event > Interpreted
    /\ ContainerSucceeded => deser.event > last.start

\* C26 as amended: a decode primitive advances before it interprets.  After
\* a successful scalar decode the current event is the scalar just
\* interpreted, and nothing after it has been fetched.  After a container
\* call whose visitors each consumed one value, the terminator is the last
\* event fetched; it has been released from the lookahead slot without
\* ever becoming the current event, which is still an event of the
\* container (its start event when the container is empty); so it is when
\* the source failed in the loop of a map call, which returns success.
C26_CurrentIsInterpreted ==
    /\ ScalarSucceeded
          => /\ deser.event = Interpreted
             /\ EventType(deser, deser.event) = "SCALAR"
             /\ deser.freed[deser.event] = 0
             /\ deser.event = Len(deser.src)
             /\ deser.event_buffer = 0
    /\ GoodVisitors
          => /\ deser.event_buffer = 0
             /\ deser.event >= last.start
             /\ deser.freed[deser.event] = 0
             /\ last.visits = << >> => deser.event = last.start
             /\ deser.parser.st # "error"
                   => /\ deser.src[Len(deser.src)].type = EndOf(last.op)
                      /\ deser.freed[Len(deser.src)] = 1
                      /\ deser.event < Len(deser.src)

\* a map of one entry decoded: the current event is the entry's value
C26_Witness ==
    /\ ReturnedWell
    /\ last.op = "map"
    /\ last.act = "vreturn"
    /\ Len(last.visits) = 1
    /\ EventType(deser, deser.event) = "SCALAR"
    /\ deser.event = Len(deser.src) - 1

\* a scalar decode call has just returned, having found an event in the
\* lookahead slot: its yaml_next_event promoted that event
Promoted ==
    /\ last.act = "call"
    /\ last.op \in ScalarOps
    /\ last.buf0 # 0

\* C27: the cursor has one lookahead slot, which holds at most one event;
\* an event held there is not also the current event and has not been
\* released; right after yaml_next_event promoted the buffered event the
\* slot is empty, the promoted event is the current one and nothing was
\* fetched from the source.
C27_OneLookahead ==
    /\ deser.event_buffer \in 0..Len(deser.src)
    /\ deser.event_buffer # 0
          => /\ deser.event_buffer # deser.event
             /\ deser.freed[deser.event_buffer] = 0
    /\ Promoted
          => /\ deser.event = last.buf0
             /\ deser.event_buffer = 0
             /\ last.nparse = 0
             /\ Len(deser.src) = last.len0

\* a scalar decode call promoted the buffered scalar to the current event
C27_Witness ==
    /\ Promoted
    /\ last.ret = 0
    /\ deser.event = last.buf0
    /\ EventType(deser, deser.event) = "SCALAR"
    /\ deser.event_buffer = 0

\* the visitor of a list call has just returned success while the element
\* it was invoked for was still in the lookahead slot, and the call went on
\* to its next peek
PeekedWithBuffered ==
    /\ last.act = "vreturn"
    /\ last.op = "list"
    /\ last.cb = 0
    /\ last.buf0 # 0

\* C28: yaml_peek_event fetches only when the lookahead slot is empty: with
\* an event buffered it leaves the event in place and fetches nothing, so a
\* list element that its visitor did not consume is not released and is
\* still the buffered event after the next peek.
C28_PeekKeepsBuffered ==
    PeekedWithBuffered
    => /\ last.nparse = 0
       /\ Len(deser.src) = last.len0
       /\ deser.freed[last.buf0] = 0
       /\ deser.event_buffer = last.buf0

\* C30: when construction fails (no cursor is returned), every event
\* fetched from the source during the construction has been released, a
\* StreamStart or DocumentStart held as the current event included.
C30_FailedConstructionReleases ==
    (Constructed /\ deser.state = "null")
    => \A i \in 1..Len(deser.src) : deser.freed[i] = 1

\* C29: when a map or list call returns success (its visitors each having
\* consumed one value), the source has been read exactly through the end
\* event that matches the container's start event, and the lookahead slot is
\* empty: the next fetch yields the event following the container.
C29_PastContainer ==
    GoodVisitors
    => /\ deser.event_buffer = 0
       /\ Len(deser.src) = ValueEnd(deser.src, last.start)
       /\ deser.src[Len(deser.src)].type = EndOf(last.op)

\* the cursor, opened with success, has been released by
\* serdec_yaml_deserializer_free
Released == deser.state = "freed"

\* C31: over the life of a cursor no event fetched from the source is
\* released twice, and once serdec_yaml_deserializer_free has run every
\* event fetched has been released exactly once, whatever decode calls,
\* visitor results and failures came before.
C31_ReleasedExactlyOnce ==
    /\ Len(deser.freed) = Len(deser.src)
    /\ \A i \in 1..Len(deser.src) : deser.freed[i] <= 1
    /\ Released => \A i \in 1..Len(deser.src) : deser.freed[i] = 1

\* a cursor released after a map call that detached a key for its visitor
\* and consumed the end event from the lookahead slot
C31_Witness ==
    /\ Released
    /\ Len(deser.src) >= 5
    /\ \E i \in 1..Len(deser.src) : deser.src[i].type = "MAPPING_END"
    /\ \E i \in 1..Len(deser.src) : deser.src[i].type = "SCALAR"
    /\ \A i \in 1..Len(deser.src) : deser.freed[i] = 1

\* a cursor has just been constructed with success
Opened == Constructed /\ deser.state = "open"

\* C32 as stated: after a successful construction the StreamStart and
\* DocumentStart events have been discarded and the first event after
\* them is the current event of the cursor.
C32_FirstEventCurrent ==
    Opened
    => /\ PreambleThenOne(deser.src)
       /\ deser.event = Len(deser.src)
       /\ \A i \in 1..(Len(deser.src) - 1) : deser.freed[i] = 1

\* C32 as amended: after a successful construction the first event after
\* the StreamStart and DocumentStart events is held in the lookahead slot,
\* not released; the current event is the last preamble event, still
\* owned by the cursor; the preamble events before it have been released
\* and nothing further has been fetched.
C32_FirstEventBuffered ==
    Opened
    => /\ PreambleThenOne(deser.src)
       /\ Len(deser.src) >= 2
       /\ deser.event_buffer = Len(deser.src)
       /\ deser.event = Len(deser.src) - 1
       /\ deser.freed[deser.event_buffer] = 0
       /\ deser.freed[deser.event] = 0
       /\ \A i \in 1..(Len(deser.src) - 2) : deser.freed[i] = 1
       /\ last.nparse = Len(deser.src)
       /\ deser.src[Len(deser.src)].type
             \in {"MAPPING_START", "SEQUENCE_START", "SCALAR",
                  "DOCUMENT_END", "STREAM_END"}

\* a cursor constructed over a document whose root is a scalar
C32_Witness ==
    /\ Opened
    /\ EventType(deser, deser.event_buffer) = "SCALAR"
    /\ EventType(deser, deser.event) = "DOCUMENT_START"

\* the visitor of a map call has just returned a failure signal
MapVisitorFailed ==
    /\ last.act = "vreturn"
    /\ last.op = "map"
    /\ last.cb < 0

\* C33: when its visitor returns a failure signal (a negative value),
\* gobiserde_yaml_deserialize_map stops at once: it returns, with a result
\* that is not the success value 1, and does not invoke the visitor again.
C33_GobiCallbackFailureStops ==
    MapVisitorFailed
    => /\ last.returned
       /\ last.ret # 1

\* the visitor of a map call has returned success, the source not having
\* failed or ended, and the call has invoked its visitor for the next key
NextKeyGiven ==
    /\ last.act = "vreturn"
    /\ last.op = "map"
    /\ last.cb = 0
    /\ ~last.returned
    /\ last.pst0 \notin {"error", "end"}
    /\ deser.parser.st # "error"
    /\ Len(last.visits) >= 2

\* the invocation before the current one, and the current one
PrevVisit == last.visits[Len(last.visits) - 1]

CurVisit == last.visits[Len(last.visits)]

\* C34: deserialize_map does not skip what its visitor left unconsumed.
\* The key given to an invocation is the event that follows the last event
\* fetched during the invocation before it; so when the visitor returned
\* success without fetching anything, the next key is the event right after
\* the previous key, which is the first event of that entry's value, and
\* its text when it is a scalar; keys and values are shifted from then on.
C34_UnconsumedValueIsNextKey ==
    NextKeyGiven
    => /\ PrevVisit.from = PrevVisit.key
       /\ CurVisit.key = PrevVisit.to + 1
       /\ CurVisit.key = Len(deser.src)
       /\ CurVisit.keytext = EventValue(deser, CurVisit.key)
       /\ PrevVisit.to = PrevVisit.from
             => /\ CurVisit.key = PrevVisit.key + 1
                /\ Len(last.visits) = 2 => CurVisit.key = last.start + 2

\* the first visitor of a map consumed nothing and the second invocation
\* got the scalar value of the first entry as its key
C34_Witness ==
    /\ NextKeyGiven
    /\ Len(last.visits) = 2
    /\ PrevVisit.key = last.start + 1
    /\ PrevVisit.to = PrevVisit.from
    /\ CurVisit.key = last.start + 2
    /\ EventType(deser, CurVisit.key) = "SCALAR"
    /\ EventType(deser, PrevVisit.key) = "SCALAR"
    /\ CurVisit.keytext = EventValue(deser, last.start + 2)

\* the key events of the map visitors that are running, innermost last
RunningKeys ==
    { stack[j].key_event : j \in { i \in 1..Len(stack) :
                                     /\ stack[i].op = "map"
                                     /\ stack[i].key_event # 0 } }

\* the key of the visitor invocation of a map call that has just returned
ReturnedKey ==
    IF last.returned THEN CurVisit.key ELSE PrevVisit.key

\* C35: while a map visitor runs, whatever decode calls it has made (scalar,
\* nested map, nested list), the key event it was given is held by neither
\* slot of the cursor and has not been released; the key is released, once,
\* when the visitor has returned.
C35_KeyStaysValid ==
    /\ \A k \in RunningKeys :
          /\ deser.freed[k] = 0
          /\ deser.event # k
          /\ deser.event_buffer # k
    /\ (last.act = "vreturn" /\ last.op = "map" /\ ReturnedKey # 0)
          => deser.freed[ReturnedKey] = 1

\* the visitor of a map, running for a key of the outer map, has made a
\* nested map call whose own visitor is running: both keys are held
C35_Witness ==
    /\ Len(stack) = 2
    /\ stack[1].op = "map"
    /\ stack[2].op = "map"
    /\ stack[1].key_event # 0
    /\ stack[2].key_event > stack[1].key_event
    /\ deser.freed[stack[1].key_event] = 0
    /\ deser.event # stack[1].key_event

\* a scalar decode call has just returned a failure
ScalarDecodeFailed ==
    /\ last.act = "call"
    /\ last.op \in ScalarOps
    /\ last.ret # 0

\* C36: a scalar decode call that fails, for whatever reason (failure of
\* the source, UnexpectedEvent, InvalidBooleanToken, SystemError), has not
\* assigned through its value pointer: the destination holds what it held
\* before the call.  A call that succeeds has assigned it.
C36_FailureLeavesOutput ==
    /\ ScalarDecodeFailed
          => /\ ~last.wrote
             /\ last.vstr = 0
             /\ last.ret = deser.error
    /\ ScalarSucceeded => last.wrote

\* deserialize_bool has rejected a scalar that is not a boolean token
C36_Witness ==
    /\ ScalarDecodeFailed
    /\ last.op = "bool"
    /\ last.ret = SERDEC_YAML_INVALID_BOOLEAN_TOKEN
    /\ InterpretedType = "SCALAR"
    /\ ~last.wrote

\* the text has no digit in it
NoDigits(text) == \A i \in 1..Len(text) : ~IsDigit(text[i])

\* the text is an optional minus sign followed by digits only, and the
\* integer it denotes is less than INT_MIN or greater than INT_MAX
OutOfIntRange(text) ==
    LET neg == Len(text) >= 1 /\ text[1] = "-"
        ds == IF neg THEN Tail(text) ELSE text
    IN /\ Len(ds) >= 1
       /\ \A i \in 1..Len(ds) : IsDigit(ds[i])
       /\ DigitsGreater(StripZeros(ds), LongLimit(32, neg))

\* C38: serdec_yaml_deserialize_int fails on a scalar whose text is a
\* base-10 integer outside the range of int, and on a scalar whose text has
\* no digits (the empty text): it never reports success with a truncated,
\* saturated or default value.
C38_IntRejectsUnrepresentable ==
    (/\ last.act = "call"
     /\ last.op = "int"
     /\ InterpretedType = "SCALAR"
     /\ \/ NoDigits(InterpretedText)
        \/ OutOfIntRange(InterpretedText))
    => last.ret # 0

\* C37: over a well-formed source, which produces its events without
\* failing, a map or list call in progress returns in the end, its visitors
\* returning success whatever they consumed: the loop does not go on
\* invoking the visitor for ever once the source is exhausted.
C37_ContainerCallsTerminate ==
    [](deser.parser.st # "error") => ((stack # << >>) ~> (stack = << >>))

=============================================================================
